---- MODULE Spec2Model ----
(***************************************************************************)
(* A model of simple_e4b: the E4BBank collection (simple_e4b.hpp), the     *)
(* FORMChunk container and the entity records (e4b_types.hpp), and the     *)
(* bank codec WriteE4B / ReadE4B, at the level of the bytes of the file.   *)
(*                                                                         *)
(* Conventions                                                             *)
(*  - a byte is a number in 0..255; a string, a name, a tag, a file is a   *)
(*    sequence of bytes; the host is little-endian (the source byteswaps   *)
(*    every big-endian field by hand);                                      *)
(*  - the build modelled is the release build: assert() compiles to        *)
(*    nothing, and the code after it decides;                              *)
(*  - an entity carries the fields the codec moves between the bank and    *)
(*    the file and that the operations read: index, name, and the          *)
(*    variable-length payload (voices and their zone counts, PCM words,    *)
(*    MIDI bytes).  Every other field of a record keeps the value its      *)
(*    default constructor gives it and is written with that value.         *)
(***************************************************************************)
EXTENDS Integers, Sequences, FiniteSets, TLC

VARIABLES
    m_presets,        \* E4BBank::m_presets, in vector order
    m_samples,        \* E4BBank::m_samples
    m_sequences,      \* E4BBank::m_sequences
    m_startupPreset,  \* E4BBank::m_startupPreset
    pc,               \* where the calling program is: "edit" (building a bank),
                      \* "written" / "read" (after WriteE4B / ReadE4B of that file),
                      \* "provided" / "readProvided" (a file from elsewhere),
                      \* "crashed", "emst" / "emstWritten" / "emstRead",
                      \* "chunk" / "chunkWritten", "voice" / "voiceWritten" / "voiceRead"
    lastOp,           \* the last call made, its argument, size() before an Add
    e4bFile,          \* the extension of the path handed to WriteE4B / ReadE4B
    fileState,        \* "missing", "locked" (exists, cannot be opened) or "present"
    file,             \* the bytes of the file at that path
    outBank,          \* the bank handed to ReadE4B as outBank
    readResult,       \* what ReadE4B returned
    startup,          \* an E4EMSt object (its m_currentPreset)
    emstChunk,        \* the payload E4EMSt::Write appended to a chunk
    startupRead,      \* m_currentPreset of the E4EMSt that E4EMSt::Read filled
    rootChunk,        \* a FORMChunk: a tree handed to Write, or the chunk a voice
                      \* is written into
    stream,           \* the bytes FORMChunk::Write put on its output stream
    e4Voice,          \* an E4Voice object (its number of zones)
    voiceRead,        \* what E4Voice::Read made of the bytes of rootChunk: the voice
                      \* it filled and the stream it left
    fineTune,         \* a fine-tune byte, the value decoded from it, the byte encoded back
    lfo,              \* an E4LFO: the rate byte read, m_rate, the rate byte written
    tuning,           \* the field a numeric setter stored, with the value it was given
    e3Sample,         \* an E3Sample built by its constructor
    m_cords,          \* E4Voice::m_cords, the 24 cord slots of a voice
    entityIndex       \* the m_index a SetIndex call stored, with the value it was given

vars == <<m_presets, m_samples, m_sequences, m_startupPreset, pc, lastOp,
          e4bFile, fileState, file, outBank, readResult,
          startup, emstChunk, startupRead, rootChunk, stream, e4Voice, voiceRead,
          fineTune, lfo, tuning, e3Sample, m_cords, entityIndex>>

bankVars == <<m_presets, m_samples, m_sequences, m_startupPreset>>
fileVars == <<e4bFile, fileState, file>>
readVars == <<outBank, readResult>>
emstVars == <<startup, emstChunk, startupRead>>
unitVars == <<rootChunk, stream, e4Voice, voiceRead>>
objVars == <<fineTune, lfo, tuning, e3Sample, m_cords, entityIndex>>

----------------------------------------------------------------------------
(* Bounds of the model.                                                    *)

\* The capacity of each collection.  The source sets 1000 (e4b_types.hpp:41,
\* 43, 44); the model runs the same code with a small capacity so that a full
\* collection is reachable.
EOS_E4_MAX_PRESETS == 2
EOS_E4_MAX_SAMPLES == 2
EOS_E4_MAX_SEQUENCES == 2

\* Add is offered while the three collections hold fewer entities than this.
MaxEntities == 3

\* The PCM words of the longest sample offered, and the zones of the largest voice.
MaxWords == 2
MaxZones == 1

\* The table-of-contents entries of the largest file prepared outside WriteE4B.
MaxTocEntries == 2

\* The E4EMSt round trip is run for the current-preset values 0..MaxCurrentPreset.
MaxCurrentPreset == 300

\* The chunks of a tree built by hand (the root and the chunks below it).
MaxChunks == 3

----------------------------------------------------------------------------
(* Program constants.                                                      *)

EOS_E4_TOC_SIZE == 32
FORM_CHUNK_MAX_NAME_LEN == 4
EOS_E4_MAX_NAME_LEN == 16
EOS_E4_MAX_ZONES == 256
EOS_NUM_EXTRA_SAMPLE_PARAMETERS == 8
UINT16_MAX == 65535
PRESET_DATA_SIZE == 82
SAMPLE_INFO_WITHOUT_SIZE == 94
SEQ_INFO_WITHOUT_SIZE == 18

TwoTo16 == 256 * 256

----------------------------------------------------------------------------
(* Bytes and integers.  Sizes and offsets are below 2^31 in every file of  *)
(* the model, so sums of them do not wrap; a negative difference is        *)
(* wrapped to 32 bits where it is stored (Native32).                       *)

Min(a, b) == IF a <= b THEN a ELSE b

Zeros(n) == [i \in 1..n |-> 0]

Repeat(s, n) == [i \in 1..(n * Len(s)) |-> s[((i - 1) % Len(s)) + 1]]

\* The bytes of a 16-bit / 32-bit object holding v in the host's memory
\* (little-endian); v < 0 stands for v + 2^32.
Native16(v) == <<v % 256, (v \div 256) % 256>>
Native32(v) ==
    IF v >= 0
    THEN <<v % 256, (v \div 256) % 256, (v \div 65536) % 256, (v \div 16777216) % 256>>
    ELSE LET c == (0 - v) - 1
         IN  <<255 - (c % 256), 255 - ((c \div 256) % 256),
               255 - ((c \div 65536) % 256), 255 - ((c \div 16777216) % 256)>>

\* The value of the 16-bit / 32-bit object whose memory holds the bytes b.
FromNative16(b) == b[1] + 256 * b[2]
\* A uint32 of 2^31 or more is carried as the value minus 2^32, the integer
\* with the same four bytes: sums and differences of such values have the
\* bytes that the unsigned arithmetic gives.
FromNative32(b) ==
    IF b[4] < 128
    THEN b[1] + 256 * b[2] + 65536 * b[3] + 16777216 * b[4]
    ELSE 0 - ((255 - b[1]) + 256 * (255 - b[2]) + 65536 * (255 - b[3])
                + 16777216 * (255 - b[4])) - 1

\* byteswap_uint16 / byteswap_uint32, on the memory of the object.
byteswap_uint16(b) == <<b[2], b[1]>>
byteswap_uint32(b) == <<b[4], b[3], b[2], b[1]>>

\* The 4-character tags of the format, as bytes.
TagFORM == <<70, 79, 82, 77>>
TagE4B0 == <<69, 52, 66, 48>>
TagTOC1 == <<84, 79, 67, 49>>
TagE4P1 == <<69, 52, 80, 49>>
TagE3S1 == <<69, 51, 83, 49>>
TagE4s1 == <<69, 52, 115, 49>>
TagE4Ma == <<69, 52, 77, 97>>
TagEMS0 == <<69, 77, 83, 48>>
TagEMSt == <<69, 77, 83, 116>>

----------------------------------------------------------------------------
(* Names.                                                                  *)

\* std::string::resize(n): truncate, or pad with NUL characters.
StrResize(str, n) ==
    IF Len(str) >= n THEN SubSeq(str, 1, n) ELSE str \o Zeros(n - Len(str))

ApplyEOSNamingStandards(str) ==
    IF Len(str) # 0 /\ Len(str) # EOS_E4_MAX_NAME_LEN
    THEN [i \in 1..EOS_E4_MAX_NAME_LEN |->
            IF StrResize(str, EOS_E4_MAX_NAME_LEN)[i] = 0 THEN 32
            ELSE StrResize(str, EOS_E4_MAX_NAME_LEN)[i]]
    ELSE str

\* The bytes beyond the terminating NUL of a std::string's buffer are
\* indeterminate: zero, or the fill pattern of fresh memory.
NameSlackOutcomes == {0, 205}

\* writeType(m_name.data(), EOS_E4_MAX_NAME_LEN): sixteen bytes from the start
\* of the string's buffer, which holds the name and its terminating NUL; what
\* lies beyond is read too when the name is shorter than 16 characters.
NameData(name, slack) ==
    IF Len(name) >= EOS_E4_MAX_NAME_LEN THEN SubSeq(name, 1, EOS_E4_MAX_NAME_LEN)
    ELSE name \o <<0>> \o [i \in 1..(EOS_E4_MAX_NAME_LEN - Len(name) - 1) |-> slack]

----------------------------------------------------------------------------
(* E4BBank.                                                                *)

HasIndex(vector, index) == \E k \in 1..Len(vector) : vector[k].m_index = index

RemoveAt(vector, k) == SubSeq(vector, 1, k - 1) \o SubSeq(vector, k + 1, Len(vector))

\* AddEntity without the scan for a stored entity of the same index.
AddEntity_NoDuplicateScan(vector, entity, maxCount) ==
    IF entity.m_index >= maxCount
    THEN IF entity.m_index = UINT16_MAX /\ Len(vector) < maxCount
         THEN Append(vector, [entity EXCEPT !.m_index = Len(vector) % TwoTo16])
         ELSE vector
    ELSE Append(vector, entity)

\* AddEntity that counts the auto-assigned index from one.
AddEntity_SentinelFromOne(vector, entity, maxCount) ==
    IF HasIndex(vector, entity.m_index) THEN vector
    ELSE IF entity.m_index >= maxCount
         THEN IF entity.m_index = UINT16_MAX /\ Len(vector) < maxCount
              THEN Append(vector, [entity EXCEPT !.m_index = Len(vector) + 1])
              ELSE vector
         ELSE Append(vector, entity)

\* The body shared by AddPreset, AddSequence and AddSample after the name has
\* been normalised: the duplicate scan, the range check with the auto-assign
\* sentinel, the emplace_back.  maxCount is the collection's capacity.
AddEntity(vector, entity, maxCount) ==
    IF HasIndex(vector, entity.m_index) THEN vector
    ELSE IF entity.m_index >= maxCount
         THEN IF entity.m_index = UINT16_MAX
              THEN IF Len(vector) < maxCount
                   THEN Append(vector, [entity EXCEPT !.m_index = Len(vector) % TwoTo16])
                   ELSE vector
              ELSE vector
         ELSE Append(vector, entity)

NormaliseName(entity) ==
    IF Len(entity.m_name) # EOS_E4_MAX_NAME_LEN
    THEN [entity EXCEPT !.m_name = ApplyEOSNamingStandards(entity.m_name)]
    ELSE entity

E4BBank_AddPreset(presets, preset) ==
    AddEntity(presets, NormaliseName(preset), EOS_E4_MAX_PRESETS)

E4BBank_AddSequence(sequences, sequence) ==
    AddEntity(sequences, NormaliseName(sequence), EOS_E4_MAX_SEQUENCES)

E4BBank_AddSample(samples, sample) ==
    AddEntity(samples, NormaliseName(sample), EOS_E4_MAX_SAMPLES)

\* RemoveIfValid without the scan for an element that carries the index.
RemoveIfValid_NoScan(vector, index) ==
    IF index < Len(vector)
    THEN {[vector |-> RemoveAt(vector, index + 1), crash |-> FALSE]}
    ELSE {[vector |-> vector, crash |-> FALSE]}

\* RemoveIfValid erases the element at POSITION index (std::next(begin(), index)),
\* once some element CARRIES index.  With index >= size() the erase is undefined
\* behaviour: a checked build stops the program, an unchecked one moves an empty
\* range, drops the last element and goes on.  The result is the set of outcomes.
RemoveIfValid(vector, index) ==
    IF ~HasIndex(vector, index) THEN {[vector |-> vector, crash |-> FALSE]}
    ELSE IF index < Len(vector)
         THEN {[vector |-> RemoveAt(vector, index + 1), crash |-> FALSE]}
         ELSE {[vector |-> vector, crash |-> TRUE],
               [vector |-> SubSeq(vector, 1, Len(vector) - 1), crash |-> FALSE]}

\* SetStartupPreset that stores the index asked for, stored or not.
E4BBank_SetStartupPreset_NoFallback(presets, startupPreset, presetIndex) ==
    IF Len(presets) = 0 THEN startupPreset ELSE presetIndex

\* SetStartupPreset on a bank with the presets given: the new m_startupPreset.
E4BBank_SetStartupPreset(presets, startupPreset, presetIndex) ==
    IF Len(presets) = 0 THEN startupPreset
    ELSE IF presetIndex = 65535 THEN presetIndex
    ELSE IF HasIndex(presets, presetIndex) THEN presetIndex
    ELSE presets[1].m_index

\* A bank as a value (the outBank of ReadE4B).
EmptyBank ==
    [m_presets |-> <<>>, m_samples |-> <<>>, m_sequences |-> <<>>, m_startupPreset |-> 0]

----------------------------------------------------------------------------
(* FORMChunk.                                                              *)

\* FORMChunk(chunkName, chunkSize): nothing written yet, no sub-chunk.
FORMChunk(chunkName, chunkSize) ==
    [m_chunkName |-> chunkName, m_readChunkSize |-> chunkSize,
     m_writtenData |-> <<>>, m_subChunks |-> <<>>]

\* writeType(data, size): the buffer grows by size bytes and data is copied in at
\* the write cursor, which is always the old end of the buffer.  A null data
\* leaves the new bytes as resize() made them: zero (pass Zeros(size)).
writeType(chunk, data) ==
    IF Len(data) > 0 THEN [chunk EXCEPT !.m_writtenData = @ \o data] ELSE chunk

RECURSIVE SumFullSize(_, _, _)
RECURSIVE GetFullSize(_, _)

SumFullSize(subChunks, includeHeader, i) ==
    IF i > Len(subChunks) THEN 0
    ELSE GetFullSize(subChunks[i], includeHeader) + SumFullSize(subChunks, includeHeader, i + 1)

GetFullSize(chunk, includeHeader) ==
    ( Len(chunk.m_writtenData)
      + (IF includeHeader THEN Len(chunk.m_chunkName) + 4 ELSE 0)
      + SumFullSize(chunk.m_subChunks, includeHeader, 1) )

RECURSIVE WriteSubChunks(_, _)
RECURSIVE FORMChunk_Write(_)

WriteSubChunks(subChunks, i) ==
    IF i > Len(subChunks) THEN <<>>
    ELSE FORMChunk_Write(subChunks[i]) \o WriteSubChunks(subChunks, i + 1)

\* FORMChunk::Write without the check of the name's length.
FORMChunk_Write_AnyName(chunk) ==
    chunk.m_chunkName
      \o byteswap_uint32(Native32(
             IF chunk.m_readChunkSize # 0 THEN chunk.m_readChunkSize
             ELSE GetFullSize(chunk, TRUE) - 8))
      \o chunk.m_writtenData
      \o WriteSubChunks(chunk.m_subChunks, 1)

\* The bytes FORMChunk::Write puts on the stream.
FORMChunk_Write(chunk) ==
    IF Len(chunk.m_chunkName) # FORM_CHUNK_MAX_NAME_LEN THEN <<>>
    ELSE chunk.m_chunkName
         \o byteswap_uint32(Native32(
                IF chunk.m_readChunkSize # 0 THEN chunk.m_readChunkSize
                ELSE GetFullSize(chunk, TRUE) - 8))
         \o chunk.m_writtenData
         \o WriteSubChunks(chunk.m_subChunks, 1)

----------------------------------------------------------------------------
(* Entity records: Write.                                                  *)

\* E4SampleZoneNoteData as it lies in memory: low, lowFade, highFade, high.
DefaultNoteData == <<0, 0, 0, 127>>

\* E4Envelope as it lies in memory, with its default member values.
DefaultEnvelope == <<0, 0, 0, 127, 0, 127, 0, 127, 0, 0, 0, 0>>

\* A zone record without its last two reserved bytes.
E4SampleZone_Write_Short ==
    DefaultNoteData \o DefaultNoteData
      \o byteswap_uint16(Native16(0)) \o Zeros(1)
      \o <<0>> \o <<60>> \o <<0>> \o <<0>> \o Zeros(5)

\* E4SampleZone::Write of a default-constructed zone: key and velocity range,
\* sample index 0 (big-endian), one reserved byte, fine tune byte 0
\* (ConvertFineTuneToByte(0.0)), original key C3 = 60, volume 0, pan 0, seven
\* reserved bytes.
E4SampleZone_Write ==
    DefaultNoteData \o DefaultNoteData
      \o byteswap_uint16(Native16(0)) \o Zeros(1)
      \o <<0>> \o <<60>> \o <<0>> \o <<0>> \o Zeros(7)

\* E4LFO::Write of E4LFO(5.79, SINE, 0.0, 0.f, true): GetByteFromLFORate(5.79)
\* = round(76.88) = 77, shape SINE = 1, GetByteFromLFODelay(0.0) = round(0.002)
\* = 0, variation 0, the key-sync flag inverted, two reserved bytes.
E4LFO_Write == <<77, 1, 0, 0, 0>> \o Zeros(2)

\* E4Cord::Write of the 24 cords of a default voice: source, destination,
\* ConvertPercentToByteF(amount), one zero byte.  Eight are set by the member
\* initialiser, sixteen are (SRC_OFF, DST_OFF, 0).
DefaultCords ==
    <<12, 64, 0, 0>> \o <<16, 48, 0, 0>> \o <<96, 48, 0, 0>> \o <<17, 170, 8, 0>>
      \o <<12, 56, 0, 0>> \o <<80, 56, 0, 0>> \o <<9, 56, 0, 0>> \o <<22, 8, 127, 0>>
      \o Zeros(4 * 16)

\* ConvertChorusWidthToByte(100.f) converts the float 256.0 to int8_t, which
\* cannot hold it: undefined behaviour.  A build that converts to a wider
\* integer and narrows gives 0, one that saturates gives 127.
ChorusWidthByteOutcomes == {0, 127}

\* E4Voice::Write of a voice with default members and voice.m_zones zones;
\* chorusWidth is the byte the build produced for the chorus width.
E4Voice_Write(voice, chorusWidth) ==
    byteswap_uint16(Native16((284 + 22 * voice.m_zones) % TwoTo16))
      \o <<voice.m_zones % 256>>                    \* zoneCount
      \o <<0>>                                        \* m_group
      \o Zeros(8)
      \o DefaultNoteData \o DefaultNoteData \o DefaultNoteData
      \o Zeros(1)
      \o <<0>>                                        \* m_keyAssignGroup POLY_ALL
      \o byteswap_uint16(Native16(0))                 \* m_keyDelay
      \o Zeros(3)
      \o <<0>>                                        \* sampleOffset
      \o <<0>> \o <<0>>                               \* m_transpose, m_coarseTune
      \o <<0>>                                        \* fineTune
      \o <<0>> \o <<0>> \o <<0>>                      \* m_glideRate, m_fixedPitch, m_keyMode
      \o Zeros(1)
      \o <<chorusWidth>>
      \o <<0>>                                        \* chorusAmount
      \o Zeros(7)
      \o <<0>>                                        \* m_keyLatch
      \o Zeros(2)
      \o <<0>> \o <<0>> \o <<0>>                      \* m_glideCurveType, m_volume, m_pan
      \o Zeros(1)
      \o <<0>> \o <<127>>                             \* m_ampEnvDynRange, m_filterType NO_FILTER
      \o Zeros(1)
      \o <<255>>                                      \* ConvertFilterFrequencyToByte(20000)
      \o <<0>>                                        \* filterResonance
      \o Zeros(48)
      \o DefaultEnvelope \o Zeros(2)
      \o DefaultEnvelope \o Zeros(2)
      \o DefaultEnvelope \o Zeros(2)
      \o E4LFO_Write \o Zeros(1) \o E4LFO_Write
      \o <<0>> \o Zeros(1) \o <<0>>                   \* m_lfoLag1, m_lfoLag2
      \o Zeros(20)
      \o DefaultCords
      \o Repeat(E4SampleZone_Write, voice.m_zones)

RECURSIVE WriteVoices(_, _, _)
WriteVoices(voices, chorusWidth, i) ==
    IF i > Len(voices) THEN <<>>
    ELSE E4Voice_Write(voices[i], chorusWidth) \o WriteVoices(voices, chorusWidth, i + 1)

\* The bytes E4Preset::Write appends to presetChunk.  m_transpose and m_volume
\* are 0, the four initial MIDI controllers are 255 (off).
E4Preset_Write(preset, chorusWidth, slack) ==
    byteswap_uint16(Native16(preset.m_index))
      \o NameData(preset.m_name, slack)
      \o byteswap_uint16(Native16(PRESET_DATA_SIZE))
      \o byteswap_uint16(Native16(Len(preset.m_voices) % TwoTo16))
      \o Zeros(4)
      \o <<0>> \o <<0>>
      \o Zeros(24)
      \o <<82, 35, 0, 126>>                           \* 'R', '#', '\0', '~'
      \o <<255, 255, 255, 255>>
      \o Zeros(24)
      \o WriteVoices(preset.m_voices, chorusWidth, 1)

\* E3SampleParams(numSamples, 1, 0, 0) for a mono sample without a loop, as
\* E3Sample's constructor builds it, in declaration order: m_unknown,
\* m_sampleStartL, m_sampleStartR, m_sampleEndL, m_sampleEndR, m_loopStartL,
\* m_loopStartR, m_loopEndL, m_loopEndR.
E3SampleParams_Write(numSamples) ==
    Native32(0) \o Native32(92) \o Native32(92)
      \o Native32(numSamples * 2 + 92 - 2)
      \o Native32(numSamples * 2 + 92 - 2)
      \o Native32(92) \o Native32(92)
      \o Native32(90) \o Native32(90)

RECURSIVE WordsToBytes(_, _)
WordsToBytes(words, i) ==
    IF i > Len(words) THEN <<>> ELSE Native16(words[i]) \o WordsToBytes(words, i + 1)

\* The bytes E3Sample::Write appends to sampleChunk: nothing for a sample
\* without PCM data; else index, name, the nine parameters, the sample rate
\* (44100), the format word (mono, no loop: EOS_MONO_SAMPLE_L = 0x00200000), the
\* eight extra parameters, the PCM words.
E3Sample_Write(sample, slack) ==
    IF Len(sample.m_sampleData) = 0 THEN <<>>
    ELSE byteswap_uint16(Native16(sample.m_index))
           \o NameData(sample.m_name, slack)
           \o E3SampleParams_Write(Len(sample.m_sampleData))
           \o Native32(44100)
           \o Native32(2097152)
           \o Zeros(4 * EOS_NUM_EXTRA_SAMPLE_PARAMETERS)
           \o WordsToBytes(sample.m_sampleData, 1)

\* The bytes E4Sequence::Write appends: nothing without MIDI data.
E4Sequence_Write(sequence, slack) ==
    IF Len(sequence.m_midiData) = 0 THEN <<>>
    ELSE byteswap_uint16(Native16(sequence.m_index))
           \o NameData(sequence.m_name, slack)
           \o sequence.m_midiData

\* A default-constructed E4MIDIChannel as it lies in memory (32 bytes).
DefaultMIDIChannel ==
    <<127, 0>> \o Zeros(3) \o <<255>> \o Zeros(16) \o <<0, 0, 0, 0, 127, 0, 0, 0>>
      \o Native16(65535)

\* "Untitled MSetup "
EMStName == <<85, 110, 116, 105, 116, 108, 101, 100, 32, 77, 83, 101, 116, 117, 112, 32>>

\* The bytes E4EMSt::Write appends for E4EMSt("Untitled MSetup ", currentPreset):
\* m_currentPreset is copied from memory as it is, without a byteswap.
E4EMSt_Write(currentPreset) ==
    Zeros(2)
      \o ApplyEOSNamingStandards(EMStName)
      \o Zeros(4)
      \o Native16(currentPreset)
      \o Repeat(DefaultMIDIChannel, 32)
      \o Zeros(5)
      \o <<20>>                                       \* m_tempo
      \o Zeros(312)

----------------------------------------------------------------------------
(* WriteE4B.                                                               *)

\* The lambda AddTOCIndex: FORM with the table entry of subChunk appended to
\* TOC1, FORM's first sub-chunk.
AddTOCIndex(FORM, subChunk, index, name) ==
    LET TOCSubchunk ==
            writeType(
              writeType(
                writeType(
                  writeType(
                    FORMChunk(subChunk.m_chunkName,
                              GetFullSize(subChunk, FALSE) - 2),
                    byteswap_uint32(Native32(
                        GetFullSize(FORM, TRUE) + EOS_E4_TOC_SIZE))),
                  byteswap_uint16(Native16(index))),
                name),
              Zeros(2))
    IN  [FORM EXCEPT !.m_subChunks[1].m_subChunks = Append(@, TOCSubchunk)]

\* One pass of either loop of WriteE4B: the entity's sub-chunk is built, its
\* table entry is added, the sub-chunk is appended to FORM.
AddSubChunk(FORM, tag, payload, index, name) ==
    LET subChunk == writeType(FORMChunk(tag, 0), payload)
    IN  [AddTOCIndex(FORM, subChunk, index, name)
            EXCEPT !.m_subChunks = Append(@, subChunk)]

RECURSIVE WritePresets(_, _, _, _, _)
WritePresets(FORM, presets, chorusWidth, slack, i) ==
    IF i > Len(presets) THEN FORM
    ELSE WritePresets(
           AddSubChunk(FORM, TagE4P1, E4Preset_Write(presets[i], chorusWidth, slack),
                       presets[i].m_index, presets[i].m_name),
           presets, chorusWidth, slack, i + 1)

RECURSIVE WriteSamples(_, _, _, _)
WriteSamples(FORM, samples, slack, i) ==
    IF i > Len(samples) THEN FORM
    ELSE WriteSamples(
           AddSubChunk(FORM, TagE3S1, E3Sample_Write(samples[i], slack),
                       samples[i].m_index, samples[i].m_name),
           samples, slack, i + 1)

\* The chunk tree WriteE4B hands to FORM.Write: FORM holding "E4B0", TOC1, one
\* sub-chunk per preset, one per sample, and EMSt.  The sequences of the bank
\* are not visited.
WriteE4B_Tree(bank, chorusWidth, slack) ==
    LET FORM0 == [writeType(FORMChunk(TagFORM, 0), TagE4B0)
                    EXCEPT !.m_subChunks = <<FORMChunk(TagTOC1, 0)>>]
        FORM1 == WritePresets(FORM0, bank.m_presets, chorusWidth, slack, 1)
        FORM2 == WriteSamples(FORM1, bank.m_samples, slack, 1)
        EMSt  == writeType(FORMChunk(TagEMSt, 0), E4EMSt_Write(bank.m_startupPreset))
    IN  [FORM2 EXCEPT !.m_subChunks = Append(@, EMSt)]

WriteE4B_Bytes(bank, chorusWidth, slack) ==
    FORMChunk_Write(WriteE4B_Tree(bank, chorusWidth, slack))

IsEOSFileFormat(extension) == extension = ".e4b" \/ extension = ".E4B"

----------------------------------------------------------------------------
(* std::ifstream over the bytes data: the get position and the state bits. *)

OpenStream == [pos |-> 0, fail |-> FALSE, eof |-> FALSE]

Good(s) == ~s.fail /\ ~s.eof

Available(data, s) == IF s.pos >= Len(data) THEN 0 ELSE Len(data) - s.pos

\* stream.read(buffer, n), buffer holding old before the call: a stream that
\* is not good() sets failbit and leaves the buffer; else the bytes available
\* are copied in and, when fewer than n, eofbit and failbit are set.
StreamRead(data, s, n, old) ==
    IF ~Good(s) THEN [s |-> [s EXCEPT !.fail = TRUE], buf |-> old]
    ELSE LET k == Min(n, Available(data, s))
         IN  [s   |-> [pos |-> s.pos + k, fail |-> k < n, eof |-> k < n],
              buf |-> SubSeq(data, s.pos + 1, s.pos + k) \o SubSeq(old, k + 1, n)]

\* stream.ignore(n): reaching the end before n bytes sets eofbit alone.
StreamIgnore(data, s, n) ==
    IF ~Good(s) THEN [s EXCEPT !.fail = TRUE]
    ELSE LET k == Min(n, Available(data, s))
         IN  [pos |-> s.pos + k, fail |-> FALSE, eof |-> k < n]

\* stream.seekg(p): eofbit is cleared, then a failed stream stays where it is.
StreamSeekg(s, p) == [pos |-> IF s.fail THEN s.pos ELSE p, fail |-> s.fail, eof |-> FALSE]

\* stream.tellg(): -1 on a failed stream.
StreamTellg(s) == IF s.fail THEN -1 ELSE s.pos

\* A run of reads (n > 0: read n bytes) and ignores (n < 0: ignore -n bytes)
\* whose values the model does not keep: the stream after ops[lo..hi], the
\* first half of the run, then the second.  On a stream that is not good()
\* each of them only sets failbit.
RECURSIVE StreamRun(_, _, _, _, _)
StreamRun(data, s, ops, lo, hi) ==
    IF lo > hi THEN s
    ELSE IF ~Good(s) THEN [s EXCEPT !.fail = TRUE]
    ELSE IF lo = hi
    THEN IF ops[lo] > 0 THEN StreamRead(data, s, ops[lo], Zeros(ops[lo])).s
         ELSE StreamIgnore(data, s, 0 - ops[lo])
    ELSE LET mid == (lo + hi) \div 2
             first == StreamRun(data, s, ops, lo, mid)
         IN  StreamRun(data, first, ops, mid + 1, hi)

StreamApply(data, s, ops) == StreamRun(data, s, ops, 1, Len(ops))

\* FORMChunk::Read: the name (resized to 4 NULs, then read) and the length.
FORMChunk_Read(data, s) ==
    LET rName == StreamRead(data, s, FORM_CHUNK_MAX_NAME_LEN, Zeros(FORM_CHUNK_MAX_NAME_LEN))
        rSize == StreamRead(data, rName.s, 4, Native32(0))
    IN  [s |-> rSize.s, m_chunkName |-> rName.buf,
         m_readChunkSize |-> FromNative32(byteswap_uint32(rSize.buf))]

----------------------------------------------------------------------------
(* Entity records: Read.                                                   *)

\* The reads and ignores of E4LFO::Read, E4Cord::Read, E4SampleZone::Read.
LFOReadOps == <<1, 1, 1, 1, 1, -2>>
CordReadOps == <<1, 1, 1, -1>>
ZoneReadOps == <<4, 4, 2, -1, 1, 1, 1, 1, -7>>

\* The reads and ignores of E4Voice::Read after the zone count, up to the zones.
VoiceBodyReadOps ==
    <<1, -8, 4, 4, 4, -1, 1, 2, -3, 1, 1, 1, 1, 1, 1, 1, -1, 1, 1, -1, 1, -5, 1, -2,
      1, 1, 1, -1, 1, 1, -1, 1, 1, -48, 12, -2, 12, -2, 12, -2>>
      \o LFOReadOps \o <<-1>> \o LFOReadOps \o <<1, -1, 1, -20>>
      \o Repeat(CordReadOps, 24)

\* E4Voice::Read into a default voice: the stream afterwards and the voice.
E4Voice_Read(data, s) ==
    LET rSize == StreamRead(data, s, 2, Native16(0))
        voiceDataSize == FromNative16(byteswap_uint16(rSize.buf))
        rCount == StreamRead(data, rSize.s, 1, <<0>>)
        zoneCount == rCount.buf[1]
    IN  IF voiceDataSize % 22 # 20 THEN [s |-> rSize.s, voice |-> [m_zones |-> 0]]
        ELSE IF zoneCount = 0 THEN [s |-> rCount.s, voice |-> [m_zones |-> 0]]
        ELSE [s |-> StreamApply(data,
                       StreamApply(data, rCount.s, VoiceBodyReadOps),
                       Repeat(ZoneReadOps, zoneCount)),
              voice |-> [m_zones |-> zoneCount]]

\* The loop over the voices of E4Preset::Read: numVoices voices read one after
\* the other and appended to voices (the first half, then the rest).
RECURSIVE ReadVoices(_, _, _, _)
ReadVoices(data, s, numVoices, voices) ==
    IF numVoices = 0 THEN [s |-> s, voices |-> voices]
    ELSE IF numVoices = 1
    THEN LET r == E4Voice_Read(data, s)
         IN  [s |-> r.s, voices |-> Append(voices, r.voice)]
    ELSE LET half == numVoices \div 2
             r == ReadVoices(data, s, half, voices)
         IN  ReadVoices(data, r.s, numVoices - half, r.voices)

\* E4Preset::Read into a default preset (m_index 0).  The locals unknown and
\* numVoices are not initialised: a read that fails leaves them indeterminate
\* (indet.unknown, indet.numVoices).
E4Preset_Read(data, s, indet) ==
    LET rIndex == StreamRead(data, s, 2, Native16(0))
        rName  == StreamRead(data, rIndex.s, EOS_E4_MAX_NAME_LEN, Zeros(EOS_E4_MAX_NAME_LEN))
        rUnk   == StreamRead(data, rName.s, 2, Native16(indet.unknown))
        rNum   == StreamRead(data, rUnk.s, 2, Native16(indet.numVoices))
        rVoices == ReadVoices(data, StreamApply(data, rNum.s, <<-4, 1, 1, -28, 4, -24>>),
                              FromNative16(byteswap_uint16(rNum.buf)), <<>>)
        m_index == FromNative16(byteswap_uint16(rIndex.buf))
    IN  IF FromNative16(byteswap_uint16(rUnk.buf)) # PRESET_DATA_SIZE
        THEN [s |-> rUnk.s,
              preset |-> [m_index |-> m_index, m_name |-> rName.buf, m_voices |-> <<>>]]
        ELSE [s |-> rVoices.s,
              preset |-> [m_index |-> m_index, m_name |-> rName.buf,
                          m_voices |-> rVoices.voices]]

RECURSIVE BytesToWords(_, _)
BytesToWords(bytes, i) ==
    IF i + 1 > Len(bytes) THEN <<>>
    ELSE <<FromNative16(<<bytes[i], bytes[i + 1]>>)>> \o BytesToWords(bytes, i + 2)

\* E3Sample::Read into a default sample (m_index 0xFFFF).  subChunkSize is a
\* size_t: below the 94 bytes of the fixed part the subtraction wraps, resize()
\* throws, and nothing catches it (threw).
E3Sample_Read(data, s, subChunkSize) ==
    LET rIndex == StreamRead(data, s, 2, Native16(UINT16_MAX))
        rName  == StreamRead(data, rIndex.s, EOS_E4_MAX_NAME_LEN, Zeros(EOS_E4_MAX_NAME_LEN))
        sHead  == StreamApply(data, rName.s,
                              <<4, 4, 4, 4, 4, 4, 4, 4, 4, 4, 4, 4 * EOS_NUM_EXTRA_SAMPLE_PARAMETERS>>)
        count  == (subChunkSize - SAMPLE_INFO_WITHOUT_SIZE) \div 2
        rData  == StreamRead(data, sHead, 2 * count, Zeros(2 * count))
        m_index == FromNative16(byteswap_uint16(rIndex.buf))
    IN  IF subChunkSize < SAMPLE_INFO_WITHOUT_SIZE
        THEN [s |-> sHead, threw |-> TRUE,
              sample |-> [m_index |-> m_index, m_name |-> rName.buf, m_sampleData |-> <<>>]]
        ELSE [s |-> rData.s, threw |-> FALSE,
              sample |-> [m_index |-> m_index, m_name |-> rName.buf,
                          m_sampleData |-> BytesToWords(rData.buf, 1)]]

\* E4Sequence::Read into a default sequence (m_index 0xFFFF).
E4Sequence_Read(data, s, subChunkSize) ==
    LET rIndex == StreamRead(data, s, 2, Native16(UINT16_MAX))
        rName  == StreamRead(data, rIndex.s, EOS_E4_MAX_NAME_LEN, Zeros(EOS_E4_MAX_NAME_LEN))
        count  == subChunkSize - SEQ_INFO_WITHOUT_SIZE
        rData  == StreamRead(data, rName.s, count, Zeros(count))
        m_index == FromNative16(byteswap_uint16(rIndex.buf))
    IN  IF subChunkSize < SEQ_INFO_WITHOUT_SIZE
        THEN [s |-> rName.s, threw |-> TRUE,
              sequence |-> [m_index |-> m_index, m_name |-> rName.buf, m_midiData |-> <<>>]]
        ELSE [s |-> rData.s, threw |-> FALSE,
              sequence |-> [m_index |-> m_index, m_name |-> rName.buf, m_midiData |-> rData.buf]]

\* E4EMSt::Read into a default E4EMSt (m_currentPreset 0): the two bytes are
\* read into m_currentPreset and byteswapped.
E4EMSt_Read(data, s) ==
    LET rName == StreamRead(data, StreamIgnore(data, s, 2), EOS_E4_MAX_NAME_LEN,
                            Zeros(EOS_E4_MAX_NAME_LEN))
        rCur  == StreamRead(data, StreamIgnore(data, rName.s, 4), 2, Native16(0))
    IN  [s |-> StreamApply(data, rCur.s, <<32 * 32, -5, 1, -312>>),
         m_currentPreset |-> FromNative16(byteswap_uint16(rCur.buf))]

----------------------------------------------------------------------------
(* ReadE4B.                                                                *)

READ_SUCCESS == "READ_SUCCESS"
FILE_NOT_EXIST == "FILE_NOT_EXIST"
FILE_INVALID == "FILE_INVALID"
\* Not a value of EE4BReadResult: an exception left ReadE4B and ended the program.
TERMINATED == "TERMINATED"

\* A dispatch that skips an entry of unknown tag instead of rejecting the
\* file: what C9 has to tell from TagDispatch.
TagDispatch_SkipUnknown(name) ==
    IF name = TagE4P1 THEN "preset"
    ELSE IF name = TagE3S1 THEN "sample"
    ELSE IF name = TagE4s1 THEN "sequence"
    ELSE "skip"

\* The branch the tag of a table entry selects in the loop of ReadE4B.
TagDispatch(name) ==
    IF name = TagE4P1 THEN "preset"
    ELSE IF name = TagE3S1 THEN "sample"
    ELSE IF name = TagE4s1 THEN "sequence"
    ELSE IF name = TagE4Ma \/ name = TagEMS0 THEN "skip"
    ELSE "invalid"

\* After the last table entry: unless eofbit is set, one more chunk header is
\* read and an EMSt chunk sets the startup preset of the bank.
ReadTrailingEMSt(data, s, bank) ==
    IF s.eof THEN bank
    ELSE LET subChunk == FORMChunk_Read(data, s)
         IN  IF subChunk.m_chunkName = TagEMSt
             THEN [bank EXCEPT !.m_startupPreset =
                      E4BBank_SetStartupPreset(bank.m_presets, @,
                          E4EMSt_Read(data, subChunk.s).m_currentPreset)]
             ELSE bank

\* The loop of ReadE4B from table entry i (counted from 0) on.
RECURSIVE ReadEntries(_, _, _, _, _, _)
ReadEntries(data, s, bank, i, numSubchunks, indet) ==
    IF i >= numSubchunks THEN [result |-> READ_SUCCESS, bank |-> bank]
    ELSE
      LET cachedStreamPos == StreamTellg(s)
          subChunk == FORMChunk_Read(data, s)
          rPos == StreamRead(data, subChunk.s, 4, Native32(0))
          subchunkPos == FromNative32(byteswap_uint32(rPos.buf))
          sData == StreamSeekg(rPos.s, subchunkPos + FORM_CHUNK_MAX_NAME_LEN + 4)
          kind == TagDispatch(subChunk.m_chunkName)
          subChunkSize == subChunk.m_readChunkSize + 2
          rPreset == E4Preset_Read(data, sData, indet)
          rSample == E3Sample_Read(data, sData, subChunkSize)
          rSequence == E4Sequence_Read(data, sData, subChunkSize)
          sAfter == IF kind = "preset" THEN rPreset.s
                    ELSE IF kind = "sample" THEN rSample.s
                    ELSE IF kind = "sequence" THEN rSequence.s
                    ELSE StreamIgnore(data, sData, subChunk.m_readChunkSize)
          bankAfter ==
              IF kind = "preset"
              THEN [bank EXCEPT !.m_presets = E4BBank_AddPreset(@, rPreset.preset)]
              ELSE IF kind = "sample"
              THEN [bank EXCEPT !.m_samples = E4BBank_AddSample(@, rSample.sample)]
              ELSE IF kind = "sequence"
              THEN [bank EXCEPT !.m_sequences = E4BBank_AddSequence(@, rSequence.sequence)]
              ELSE bank
      IN  IF kind = "invalid" THEN [result |-> FILE_INVALID, bank |-> bank]
          ELSE IF (kind = "sample" /\ rSample.threw) \/ (kind = "sequence" /\ rSequence.threw)
          THEN [result |-> TERMINATED, bank |-> bank]
          ELSE IF i + 1 < numSubchunks
          THEN ReadEntries(data, StreamSeekg(sAfter, cachedStreamPos + EOS_E4_TOC_SIZE),
                           bankAfter, i + 1, numSubchunks, indet)
          ELSE [result |-> READ_SUCCESS, bank |-> ReadTrailingEMSt(data, sAfter, bankAfter)]

\* ReadE4B(e4bFile, outBank): the result and outBank afterwards.  extension
\* is the path's, state says whether the file exists and opens, data is what
\* it holds.
ReadE4B_Result(extension, state, data, bank, indet) ==
    IF ~IsEOSFileFormat(extension) THEN [result |-> FILE_INVALID, bank |-> bank]
    ELSE IF state # "present" THEN [result |-> FILE_NOT_EXIST, bank |-> bank]
    ELSE
      LET form == FORMChunk_Read(data, OpenStream)
          rE4B0 == StreamRead(data, form.s, 4, Zeros(4))
          TOC == FORMChunk_Read(data, rE4B0.s)
          numSubchunks == TOC.m_readChunkSize \div EOS_E4_TOC_SIZE
      IN  IF form.m_chunkName = TagFORM
          THEN IF rE4B0.buf = TagE4B0 /\ TOC.m_chunkName = TagTOC1 /\ numSubchunks > 0
               THEN ReadEntries(data, TOC.s, bank, 0, numSubchunks, indet)
               ELSE [result |-> FILE_INVALID, bank |-> bank]
          ELSE [result |-> FILE_NOT_EXIST, bank |-> bank]

----------------------------------------------------------------------------
(* What the callers pass in.                                               *)

\* Explicit indices in range, the first one out of range, and the auto-assign
\* sentinel.
IndexInputs == (0..EOS_E4_MAX_PRESETS) \cup {UINT16_MAX}

\* "P" (to be padded) and "Test Preset     ".
NameP == <<80>>
NameTestPreset == <<84, 101, 115, 116, 32, 80, 114, 101, 115, 101, 116, 32, 32, 32, 32, 32>>
\* "Sample" and "Seq".
NameSample == <<83, 97, 109, 112, 108, 101>>
NameSeq == <<83, 101, 113>>

\* Presets as E4Preset(name, voices, index) builds them: one without a voice,
\* one with a voice of MaxZones zones.
PresetInputs ==
    { [m_index |-> i, m_name |-> ApplyEOSNamingStandards(NameP), m_voices |-> <<>>]
        : i \in IndexInputs }
    \cup
    { [m_index |-> i, m_name |-> ApplyEOSNamingStandards(NameTestPreset),
       m_voices |-> <<[m_zones |-> MaxZones]>>] : i \in IndexInputs }

\* Samples as E3Sample(name, data, 44100, 1, SampleLoopInfo(), index) builds
\* them, with MaxWords PCM words 0x1001, 0x1002, ...
SampleInputs ==
    { [m_index |-> i, m_name |-> ApplyEOSNamingStandards(NameSample),
       m_sampleData |-> [k \in 1..MaxWords |-> 4096 + k]] : i \in IndexInputs }

\* Sequences as E4Sequence(name, midiData, index) builds them ("MThd").
SequenceInputs ==
    { [m_index |-> i, m_name |-> ApplyEOSNamingStandards(NameSeq),
       m_midiData |-> <<77, 84, 104, 100>>] : i \in IndexInputs }

ExtensionInputs == {".e4b", ".E4B", ".wav"}

\* What an uninitialised 16-bit local may hold.
IndeterminateInputs == {[unknown |-> u, numVoices |-> n] : u \in {0, 20992}, n \in {0, 256}}

Bank == [m_presets |-> m_presets, m_samples |-> m_samples,
         m_sequences |-> m_sequences, m_startupPreset |-> m_startupPreset]

TotalEntities == Len(m_presets) + Len(m_samples) + Len(m_sequences)

\* An Add call: its name, the index of its argument, and the size() of the
\* collection it was made on.
OpAdd(name, index, size) == [op |-> name, index |-> index, size |-> size]

\* Any other call: its name and its argument.
Op(name, index) == OpAdd(name, index, 0)

----------------------------------------------------------------------------
(* The state after construction, and the calls.                            *)

\* The cord slots of a voice.  The source has 24: the eight its member
\* initialiser sets and sixteen that are (SRC_OFF, DST_OFF); the model keeps
\* the eight and FreeCordSlots of the others.
FreeCordSlots == 2
SRC_OFF == 0
DST_OFF == 0

E4Cord(src, dst, amt) == [m_src |-> src, m_dst |-> dst, m_percent |-> amt]

\* E4Voice::m_cords of a default voice.
DefaultCordSlots ==
    <<E4Cord(12, 64, 0), E4Cord(16, 48, 0), E4Cord(96, 48, 0), E4Cord(17, 170, 6),
      E4Cord(12, 56, 0), E4Cord(80, 56, 0), E4Cord(9, 56, 0), E4Cord(22, 8, 100)>>
      \o [i \in 1..FreeCordSlots |-> E4Cord(SRC_OFF, DST_OFF, 0)]

\* The first slot of cords, in array order, among the slots in found.
FirstSlot(found) == CHOOSE i \in found : \A j \in found : i <= j

ReplaceOrAddCord_NoReplace(cords, cord) ==
    LET free == {i \in DOMAIN cords :
                    cords[i].m_src = SRC_OFF /\ cords[i].m_dst = DST_OFF}
    IN  IF free # {} THEN [cords EXCEPT ![FirstSlot(free)] = cord] ELSE cords

\* E4Voice::ReplaceOrAddCord: the first slot with the cord's source and
\* destination takes its amount (SetPercent clamps to [-100, 100]); without
\* one, the first (SRC_OFF, DST_OFF) slot takes the cord; without one, nothing.
ReplaceOrAddCord(cords, cord) ==
    LET existing == {i \in DOMAIN cords :
                        cords[i].m_src = cord.m_src /\ cords[i].m_dst = cord.m_dst}
        free == {i \in DOMAIN cords :
                    cords[i].m_src = SRC_OFF /\ cords[i].m_dst = DST_OFF}
    IN  IF existing # {}
        THEN [cords EXCEPT ![FirstSlot(existing)].m_percent =
                              IF cord.m_percent < -100 THEN -100
                              ELSE IF cord.m_percent > 100 THEN 100 ELSE cord.m_percent]
        ELSE IF free # {} THEN [cords EXCEPT ![FirstSlot(free)] = cord]
        ELSE cords

\* No conversion, setter or constructor has been called: every object of the
\* unit specifications holds zeros, the voice its default cords.
ObjIdle ==
    /\ fineTune = [byte |-> 0, m_fineTune |-> 0, written |-> 0]
    /\ lfo = [byte |-> 0, m_rate |-> 0, written |-> 0]
    /\ tuning = [setter |-> "none", value |-> 0, stored |-> 0]
    /\ e3Sample = [m_numChannels |-> 0]
    /\ m_cords = DefaultCordSlots
    /\ entityIndex = [entity |-> "none", index |-> 0, m_index |-> 0, vector |-> <<>>]

\* No chunk and no voice is under work: a default FORMChunk, an empty output,
\* a default E4Voice.
UnitIdle ==
    /\ rootChunk = FORMChunk(<<>>, 0)
    /\ stream = <<>>
    /\ e4Voice = [m_zones |-> 0]
    /\ voiceRead = [s |-> OpenStream, voice |-> [m_zones |-> 0]]
    /\ ObjIdle

Init ==
    /\ m_presets = <<>>
    /\ m_samples = <<>>
    /\ m_sequences = <<>>
    /\ m_startupPreset = 0
    /\ pc = "edit"
    /\ lastOp = Op("E4BBank", 0)
    /\ e4bFile = ".e4b"
    /\ fileState = "missing"
    /\ file = <<>>
    /\ outBank = EmptyBank
    /\ readResult = "none"
    /\ startup = 0
    /\ emstChunk = <<>>
    /\ startupRead = 0
    /\ UnitIdle

AddPreset(preset) ==
    /\ pc = "edit"
    /\ TotalEntities < MaxEntities
    /\ m_presets' = E4BBank_AddPreset(m_presets, preset)
    /\ lastOp' = OpAdd("AddPreset", preset.m_index, Len(m_presets))
    /\ UNCHANGED <<m_samples, m_sequences, m_startupPreset, pc, fileVars, readVars, emstVars, unitVars, objVars>>

AddSample(sample) ==
    /\ pc = "edit"
    /\ TotalEntities < MaxEntities
    /\ m_samples' = E4BBank_AddSample(m_samples, sample)
    /\ lastOp' = OpAdd("AddSample", sample.m_index, Len(m_samples))
    /\ UNCHANGED <<m_presets, m_sequences, m_startupPreset, pc, fileVars, readVars, emstVars, unitVars, objVars>>

AddSequence(sequence) ==
    /\ pc = "edit"
    /\ TotalEntities < MaxEntities
    /\ m_sequences' = E4BBank_AddSequence(m_sequences, sequence)
    /\ lastOp' = OpAdd("AddSequence", sequence.m_index, Len(m_sequences))
    /\ UNCHANGED <<m_presets, m_samples, m_startupPreset, pc, fileVars, readVars, emstVars, unitVars, objVars>>

RemovePreset(presetIndex) ==
    /\ pc = "edit"
    /\ \E outcome \in RemoveIfValid(m_presets, presetIndex) :
          /\ m_presets' = outcome.vector
          /\ pc' = IF outcome.crash THEN "crashed" ELSE pc
    /\ lastOp' = Op("RemovePreset", presetIndex)
    /\ UNCHANGED <<m_samples, m_sequences, m_startupPreset, fileVars, readVars, emstVars, unitVars, objVars>>

RemoveSample(sampleIndex) ==
    /\ pc = "edit"
    /\ \E outcome \in RemoveIfValid(m_samples, sampleIndex) :
          /\ m_samples' = outcome.vector
          /\ pc' = IF outcome.crash THEN "crashed" ELSE pc
    /\ lastOp' = Op("RemoveSample", sampleIndex)
    /\ UNCHANGED <<m_presets, m_sequences, m_startupPreset, fileVars, readVars, emstVars, unitVars, objVars>>

RemoveSequence(sequenceIndex) ==
    /\ pc = "edit"
    /\ \E outcome \in RemoveIfValid(m_sequences, sequenceIndex) :
          /\ m_sequences' = outcome.vector
          /\ pc' = IF outcome.crash THEN "crashed" ELSE pc
    /\ lastOp' = Op("RemoveSequence", sequenceIndex)
    /\ UNCHANGED <<m_presets, m_samples, m_startupPreset, fileVars, readVars, emstVars, unitVars, objVars>>

SetStartupPreset(presetIndex) ==
    /\ pc = "edit"
    /\ m_startupPreset' = E4BBank_SetStartupPreset(m_presets, m_startupPreset, presetIndex)
    /\ lastOp' = Op("SetStartupPreset", presetIndex)
    /\ UNCHANGED <<m_presets, m_samples, m_sequences, pc, fileVars, readVars, emstVars, unitVars, objVars>>

\* WriteE4B(path, bank): nothing happens for another extension, or when the
\* output stream does not open; else the file holds what FORM.Write wrote.
WriteE4B(extension, opens) ==
    /\ pc = "edit"
    /\ e4bFile' = extension
    /\ IF ~IsEOSFileFormat(extension) THEN UNCHANGED <<fileState, file, objVars>>
       ELSE IF ~opens THEN fileState' = "locked" /\ file' = <<>>
       ELSE /\ fileState' = "present"
            /\ \E chorusWidth \in ChorusWidthByteOutcomes, slack \in NameSlackOutcomes :
                  file' = WriteE4B_Bytes(Bank, chorusWidth, slack)
    /\ pc' = "written"
    /\ lastOp' = Op("WriteE4B", 0)
    /\ UNCHANGED <<bankVars, readVars, emstVars, unitVars, objVars>>

\* ReadE4B(path, outBank) on the file at the path, outBank being empty.
ReadE4B ==
    /\ pc \in {"written", "provided"}
    /\ \E indet \in IndeterminateInputs :
          LET r == ReadE4B_Result(e4bFile, fileState, file, outBank, indet)
          IN  /\ outBank' = r.bank
              /\ readResult' = r.result
    /\ pc' = IF pc = "written" THEN "read" ELSE "readProvided"
    /\ lastOp' = Op("ReadE4B", 0)
    /\ UNCHANGED <<bankVars, fileVars, emstVars, unitVars, objVars>>

BankNext ==
    \/ \E preset \in PresetInputs : AddPreset(preset)
    \/ \E sample \in SampleInputs : AddSample(sample)
    \/ \E sequence \in SequenceInputs : AddSequence(sequence)
    \/ \E i \in IndexInputs : RemovePreset(i)
    \/ \E i \in IndexInputs : RemoveSample(i)
    \/ \E i \in IndexInputs : RemoveSequence(i)
    \/ \E i \in IndexInputs : SetStartupPreset(i)

\* The bank alone: any sequence of Add, Remove and SetStartupPreset calls.
SpecBank == Init /\ [][BankNext]_vars

Next ==
    \/ BankNext
    \/ \E extension \in ExtensionInputs, opens \in BOOLEAN : WriteE4B(extension, opens)
    \/ ReadE4B

\* A bank is built, written with WriteE4B, and read back with ReadE4B.
Spec == Init /\ [][Next]_vars

----------------------------------------------------------------------------
(* Files that ReadE4B is given from elsewhere: the layout of section       *)
(* "File layout" with every offset right, the tags varied.                 *)

TagRIFF == <<82, 73, 70, 70>>
TagE4B1 == <<69, 52, 66, 49>>
TagTOC2 == <<84, 79, 67, 50>>
TagXXXX == <<88, 88, 88, 88>>

EntryTagInputs == {TagE4P1, TagE3S1, TagE4s1, TagE4Ma, TagEMS0, TagXXXX}

\* The fields of a preset record that a file from elsewhere can have wrong.
PresetFaultInputs == {"presetSize", "voiceSize", "zoneCount"}

\* A file is described by its three header tags, the tags of its table
\* entries, and whether an EMSt chunk trails: the files with the right header
\* tags and any entries, and those with other header tags and at most one entry.
FileInputs ==
    [outer : {TagFORM}, format : {TagE4B0}, toc : {TagTOC1},
     tags : UNION {[1..n -> EntryTagInputs] : n \in 0..MaxTocEntries},
     emst : BOOLEAN, fault : {"none"}]
    \cup
    [outer : {TagFORM, TagRIFF}, format : {TagE4B0, TagE4B1}, toc : {TagTOC1, TagTOC2},
     tags : {<<>>, <<TagE4P1>>},
     emst : {TRUE}, fault : {"none"}]
    \cup
    [outer : {TagFORM}, format : {TagE4B0}, toc : {TagTOC1},
     tags : {<<TagE4P1>>, <<TagE4P1, TagE3S1>>, <<TagE4Ma, TagE4P1>>},
     emst : BOOLEAN, fault : PresetFaultInputs]

\* bytes with the bytes from position pos (counted from 0) on replaced by new.
Patch(bytes, pos, new) ==
    SubSeq(bytes, 1, pos) \o new \o SubSeq(bytes, pos + Len(new) + 1, Len(bytes))

\* A preset record whose first voice starts after the index and the
\* PRESET_DATA_SIZE bytes of preset data, with one field made inconsistent:
\* the size marker that E4Preset::Read compares with 82, the voice-data-size
\* field of the first voice, or its zone count.
FaultyPreset(payload, fault) ==
    IF fault = "presetSize"
    THEN Patch(payload, 2 + EOS_E4_MAX_NAME_LEN, byteswap_uint16(Native16(PRESET_DATA_SIZE + 1)))
    ELSE IF fault = "voiceSize"
    THEN Patch(payload, 2 + PRESET_DATA_SIZE,
               byteswap_uint16(Native16(
                   FromNative16(byteswap_uint16(
                       SubSeq(payload, 2 + PRESET_DATA_SIZE + 1, 2 + PRESET_DATA_SIZE + 2))) + 1)))
    ELSE IF fault = "zoneCount"
    THEN Patch(payload, 2 + PRESET_DATA_SIZE + 2, <<0>>)
    ELSE payload

\* The payload of the k-th sub-block, by its tag: what the entity's Write
\* produces (a preset's with the fault, if any), and index, name "M" and eight
\* bytes for the tags ReadE4B does not decode.
ExternalPayload(tag, k, fault) ==
    IF tag = TagE4P1
    THEN FaultyPreset(E4Preset_Write([m_index |-> k - 1, m_name |-> NameTestPreset,
                                      m_voices |-> <<[m_zones |-> MaxZones]>>], 0, 0),
                      fault)
    ELSE IF tag = TagE3S1
    THEN E3Sample_Write([m_index |-> k - 1, m_name |-> ApplyEOSNamingStandards(NameSample),
                         m_sampleData |-> [w \in 1..MaxWords |-> 4096 + w]], 0)
    ELSE IF tag = TagE4s1
    THEN E4Sequence_Write([m_index |-> k - 1, m_name |-> ApplyEOSNamingStandards(NameSeq),
                           m_midiData |-> <<77, 84, 104, 100>>], 0)
    ELSE byteswap_uint16(Native16(k - 1)) \o ApplyEOSNamingStandards(<<77>>) \o Zeros(8)

RECURSIVE ExternalChunks(_, _, _)
ExternalChunks(tags, k, fault) ==
    IF k > Len(tags) THEN <<>>
    ELSE LET payload == ExternalPayload(tags[k], k, fault)
         IN  tags[k] \o byteswap_uint32(Native32(Len(payload))) \o payload
               \o ExternalChunks(tags, k + 1, fault)

\* The table entries from the k-th on, the k-th sub-block starting at pos.
RECURSIVE ExternalEntries(_, _, _, _)
ExternalEntries(tags, k, pos, fault) ==
    IF k > Len(tags) THEN <<>>
    ELSE LET payload == ExternalPayload(tags[k], k, fault)
         IN  tags[k] \o byteswap_uint32(Native32(Len(payload) - 2))
               \o byteswap_uint32(Native32(pos))
               \o SubSeq(payload, 1, 2 + EOS_E4_MAX_NAME_LEN) \o Zeros(2)
               \o ExternalEntries(tags, k + 1, pos + 8 + Len(payload), fault)

ExternalFile(desc) ==
    LET n == Len(desc.tags)
        body == desc.format
                  \o desc.toc \o byteswap_uint32(Native32(EOS_E4_TOC_SIZE * n))
                  \o ExternalEntries(desc.tags, 1, 20 + EOS_E4_TOC_SIZE * n, desc.fault)
                  \o ExternalChunks(desc.tags, 1, desc.fault)
                  \o (IF desc.emst
                      THEN TagEMSt \o byteswap_uint32(Native32(Len(E4EMSt_Write(0))))
                             \o E4EMSt_Write(0)
                      ELSE <<>>)
    IN  desc.outer \o byteswap_uint32(Native32(Len(body))) \o body

\* A file described by desc is at the path handed to ReadE4B.
ProvideFile(desc, extension) ==
    /\ pc = "edit"
    /\ file' = ExternalFile(desc)
    /\ fileState' = "present"
    /\ e4bFile' = extension
    /\ pc' = "provided"
    /\ lastOp' = Op("ProvideFile", Len(desc.tags))
    /\ UNCHANGED <<bankVars, readVars, emstVars, unitVars, objVars>>

\* No file is at the path ("missing"), or one that does not open ("locked").
ProvideNoFile(state, extension) ==
    /\ pc = "edit"
    /\ file' = <<>>
    /\ fileState' = state
    /\ e4bFile' = extension
    /\ pc' = "provided"
    /\ lastOp' = Op("ProvideNoFile", 0)
    /\ UNCHANGED <<bankVars, readVars, emstVars, unitVars, objVars>>

FileNext ==
    \/ \E desc \in FileInputs, extension \in ExtensionInputs : ProvideFile(desc, extension)
    \/ \E state \in {"missing", "locked"}, extension \in ExtensionInputs :
          ProvideNoFile(state, extension)
    \/ ReadE4B

\* ReadE4B into an empty bank, on files that come from elsewhere.
SpecFile == Init /\ [][FileNext]_vars

----------------------------------------------------------------------------
(* E4EMSt alone: a startup state holding some current preset is written    *)
(* and read back.                                                          *)

InitEMSt ==
    /\ m_presets = <<>>
    /\ m_samples = <<>>
    /\ m_sequences = <<>>
    /\ m_startupPreset = 0
    /\ pc = "emst"
    /\ lastOp = Op("E4EMSt", 0)
    /\ e4bFile = ".e4b"
    /\ fileState = "missing"
    /\ file = <<>>
    /\ outBank = EmptyBank
    /\ readResult = "none"
    /\ startup \in (0..MaxCurrentPreset) \cup {UINT16_MAX}
    /\ emstChunk = <<>>
    /\ startupRead = 0
    /\ UnitIdle

EMStWrite ==
    /\ pc = "emst"
    /\ emstChunk' = E4EMSt_Write(startup)
    /\ pc' = "emstWritten"
    /\ lastOp' = Op("E4EMSt::Write", 0)
    /\ UNCHANGED <<bankVars, fileVars, readVars, startup, startupRead, unitVars, objVars>>

EMStRead ==
    /\ pc = "emstWritten"
    /\ startupRead' = E4EMSt_Read(emstChunk, OpenStream).m_currentPreset
    /\ pc' = "emstRead"
    /\ lastOp' = Op("E4EMSt::Read", 0)
    /\ UNCHANGED <<bankVars, fileVars, readVars, startup, emstChunk, unitVars, objVars>>

EMStNext == EMStWrite \/ EMStRead

SpecEMSt == InitEMSt /\ [][EMStNext]_vars

----------------------------------------------------------------------------
(* Banks of samples with and without PCM data, written and read back.      *)

\* Samples as E3Sample(name, sampleData, 44100, 1, SampleLoopInfo(), index)
\* builds them, sampleData holding 0..MaxWords words.
SampleDataInputs ==
    { [m_index |-> i, m_name |-> ApplyEOSNamingStandards(NameSample),
       m_sampleData |-> [k \in 1..n |-> 4096 + k]] : i \in IndexInputs, n \in 0..MaxWords }

SampleNext ==
    \/ \E sample \in SampleDataInputs : AddSample(sample)
    \/ \E extension \in ExtensionInputs, opens \in BOOLEAN : WriteE4B(extension, opens)
    \/ ReadE4B

SpecSample == Init /\ [][SampleNext]_vars

----------------------------------------------------------------------------
(* Entities of any name: the constructors are handed an empty name, a      *)
(* shorter one, a longer one, and 16 characters with NULs among them; the   *)
(* bank is then written.                                                    *)

\* "", "P", "Seventeen letters", "Nul" followed by 13 NUL characters.
NameInputs ==
    { <<>>, NameP,
      <<83, 101, 118, 101, 110, 116, 101, 101, 110, 32, 108, 101, 116, 116, 101, 114, 115>>,
      <<78, 117, 108>> \o Zeros(13) }

\* E4Preset(name, {}, index), E3Sample(name, one word, ...), E4Sequence(name,
\* "MThd", index): each constructor applies ApplyEOSNamingStandards to the name.
NamedPresetInputs ==
    { [m_index |-> i, m_name |-> ApplyEOSNamingStandards(n), m_voices |-> <<>>]
        : i \in IndexInputs, n \in NameInputs }

NamedSampleInputs ==
    { [m_index |-> i, m_name |-> ApplyEOSNamingStandards(n), m_sampleData |-> <<4097>>]
        : i \in {UINT16_MAX}, n \in NameInputs }

NamedSequenceInputs ==
    { [m_index |-> i, m_name |-> ApplyEOSNamingStandards(n), m_midiData |-> <<77, 84, 104, 100>>]
        : i \in {UINT16_MAX}, n \in NameInputs }

NameNext ==
    \/ \E preset \in NamedPresetInputs : AddPreset(preset)
    \/ \E sample \in NamedSampleInputs : AddSample(sample)
    \/ \E sequence \in NamedSequenceInputs : AddSequence(sequence)
    \/ \E extension \in ExtensionInputs, opens \in BOOLEAN : WriteE4B(extension, opens)

SpecNames == Init /\ [][NameNext]_vars

----------------------------------------------------------------------------
(* FORMChunk alone: a tree is built through the constructor, writeType and *)
(* m_subChunks.emplace_back, and handed to Write.                          *)

TagAB == <<65, 66>>

\* Chunk names of four bytes and of two.
ChunkNameInputs == {TagFORM, TagAB}

\* The constructor's chunkSize: none, or a length that overrides the computed one.
ChunkSizeInputs == {0, 5}

ChunkDataInputs == {<<1, 2, 3>>}

\* The chunks of a tree, each named by the positions that lead to it from the
\* root through m_subChunks.
RECURSIVE ChunkPaths(_)
ChunkPaths(c) ==
    {<<>>} \cup UNION { {<<k>> \o p : p \in ChunkPaths(c.m_subChunks[k])}
                        : k \in 1..Len(c.m_subChunks) }

RECURSIVE ChunkAt(_, _)
ChunkAt(c, path) ==
    IF path = <<>> THEN c ELSE ChunkAt(c.m_subChunks[Head(path)], Tail(path))

RECURSIVE ChunkReplace(_, _, _)
ChunkReplace(c, path, new) ==
    IF path = <<>> THEN new
    ELSE [c EXCEPT !.m_subChunks[Head(path)] = ChunkReplace(@, Tail(path), new)]

InitChunk ==
    /\ m_presets = <<>>
    /\ m_samples = <<>>
    /\ m_sequences = <<>>
    /\ m_startupPreset = 0
    /\ pc = "chunk"
    /\ lastOp = Op("FORMChunk", 0)
    /\ e4bFile = ".e4b"
    /\ fileState = "missing"
    /\ file = <<>>
    /\ outBank = EmptyBank
    /\ readResult = "none"
    /\ startup = 0
    /\ emstChunk = <<>>
    /\ startupRead = 0
    /\ \E name \in ChunkNameInputs, size \in ChunkSizeInputs : rootChunk = FORMChunk(name, size)
    /\ stream = <<>>
    /\ e4Voice = [m_zones |-> 0]
    /\ voiceRead = [s |-> OpenStream, voice |-> [m_zones |-> 0]]
    /\ ObjIdle

\* writeType on a rootChunk of the tree that holds no data yet.
ChunkWriteType(path, data) ==
    /\ pc = "chunk"
    /\ ChunkAt(rootChunk, path).m_writtenData = <<>>
    /\ rootChunk' = ChunkReplace(rootChunk, path, writeType(ChunkAt(rootChunk, path), data))
    /\ lastOp' = Op("writeType", Len(path))
    /\ UNCHANGED <<bankVars, pc, fileVars, readVars, emstVars, stream, e4Voice, voiceRead, objVars>>

\* m_subChunks.emplace_back(name, size) on a rootChunk of the tree.
ChunkEmplaceBack(path, name, size) ==
    /\ pc = "chunk"
    /\ Cardinality(ChunkPaths(rootChunk)) < MaxChunks
    /\ rootChunk' = ChunkReplace(rootChunk, path,
                    [ChunkAt(rootChunk, path) EXCEPT !.m_subChunks = Append(@, FORMChunk(name, size))])
    /\ lastOp' = Op("emplace_back", Len(path))
    /\ UNCHANGED <<bankVars, pc, fileVars, readVars, emstVars, stream, e4Voice, voiceRead, objVars>>

\* Write(stream) on the root, the stream being empty.
ChunkWrite ==
    /\ pc = "chunk"
    /\ stream' = FORMChunk_Write(rootChunk)
    /\ pc' = "chunkWritten"
    /\ lastOp' = Op("Write", 0)
    /\ UNCHANGED <<bankVars, fileVars, readVars, emstVars, rootChunk, e4Voice, voiceRead, objVars>>

ChunkNext ==
    \/ \E path \in ChunkPaths(rootChunk), data \in ChunkDataInputs : ChunkWriteType(path, data)
    \/ \E path \in ChunkPaths(rootChunk), name \in ChunkNameInputs, size \in ChunkSizeInputs :
          ChunkEmplaceBack(path, name, size)
    \/ ChunkWrite

SpecChunk == InitChunk /\ [][ChunkNext]_vars

----------------------------------------------------------------------------
(* E4Voice alone: zones are added to a default voice, the voice is written *)
(* into a chunk, and E4Voice::Read is run on the bytes written.             *)

InitVoice ==
    /\ m_presets = <<>>
    /\ m_samples = <<>>
    /\ m_sequences = <<>>
    /\ m_startupPreset = 0
    /\ pc = "voice"
    /\ lastOp = Op("E4Voice", 0)
    /\ e4bFile = ".e4b"
    /\ fileState = "missing"
    /\ file = <<>>
    /\ outBank = EmptyBank
    /\ readResult = "none"
    /\ startup = 0
    /\ emstChunk = <<>>
    /\ startupRead = 0
    /\ rootChunk = FORMChunk(TagE4P1, 0)
    /\ stream = <<>>
    /\ e4Voice = [m_zones |-> 0]
    /\ voiceRead = [s |-> OpenStream, voice |-> [m_zones |-> 0]]
    /\ ObjIdle

\* AddSampleZone: the zone is appended unless the voice holds EOS_E4_MAX_ZONES.
E4Voice_AddSampleZone(v) ==
    IF v.m_zones < EOS_E4_MAX_ZONES THEN [v EXCEPT !.m_zones = @ + 1] ELSE v

VoiceAddSampleZone ==
    /\ pc = "voice"
    /\ e4Voice' = E4Voice_AddSampleZone(e4Voice)
    /\ lastOp' = Op("AddSampleZone", 0)
    /\ UNCHANGED <<bankVars, pc, fileVars, readVars, emstVars, rootChunk, stream, voiceRead, objVars>>

\* Write(presetChunk) on the empty chunk.
VoiceWrite ==
    /\ pc = "voice"
    /\ \E chorusWidth \in ChorusWidthByteOutcomes :
          rootChunk' = writeType(rootChunk, E4Voice_Write(e4Voice, chorusWidth))
    /\ pc' = "voiceWritten"
    /\ lastOp' = Op("E4Voice::Write", 0)
    /\ UNCHANGED <<bankVars, fileVars, readVars, emstVars, stream, e4Voice, voiceRead, objVars>>

\* Read(stream) of a default voice, the stream standing at the first byte of
\* what Write appended.
VoiceRead ==
    /\ pc = "voiceWritten"
    /\ voiceRead' = E4Voice_Read(rootChunk.m_writtenData, OpenStream)
    /\ pc' = "voiceRead"
    /\ lastOp' = Op("E4Voice::Read", 0)
    /\ UNCHANGED <<bankVars, fileVars, readVars, emstVars, rootChunk, stream, e4Voice, objVars>>

VoiceNext == VoiceAddSampleZone \/ VoiceWrite \/ VoiceRead

SpecVoice == InitVoice /\ [][VoiceNext]_vars

----------------------------------------------------------------------------
(* unit_helpers, the numeric setters and the constructors: one call on an  *)
(* object that nothing else touches.  A double that the code keeps to two  *)
(* decimals is held as its number of hundredths.                           *)

\* std::ceil and std::round (to nearest, halves away from zero) of the
\* quotient num / den, den > 0.
Ceil(num, den) == 0 - ((0 - num) \div den)

Round(num, den) ==
    IF num >= 0 THEN (2 * num + den) \div (2 * den)
    ELSE 0 - ((2 * (0 - num) + den) \div (2 * den))

\* The same with the fraction cut off, as a conversion to an integer does.
Truncate(num, den) ==
    IF num >= 0 THEN num \div den ELSE 0 - ((0 - num) \div den)

\* MIN_FINE_TUNE = 1.5625 is 25 / 16.
MIN_FINE_TUNE_16THS == 25
MAX_FINE_TUNE_BYTE == 64

RECURSIVE convertedPlaces(_)
convertedPlaces(places) == IF places = 0 THEN 1 ELSE 10 * convertedPlaces(places - 1)

\* round_d_places of the value num / den: the result counted in units of
\* 10^-places.  value * convertedPlaces is exact in a double for the values
\* ConvertByteToFineTune passes (multiples of 1/4 below 2^15).
round_d_places(num, den, places) == Ceil(num * convertedPlaces(places), den)

\* ConvertByteToFineTune(b), in hundredths: (b - 64) * 1.5625 + 100 is
\* ((b - 64) * 25 + 1600) / 16.
ConvertByteToFineTune(b) ==
    round_d_places((b - MAX_FINE_TUNE_BYTE) * MIN_FINE_TUNE_16THS + 100 * 16, 16, 2)

ConvertFineTuneToByte_Truncating(hundredths) ==
    Truncate((hundredths - 10000) * 16 + MAX_FINE_TUNE_BYTE * 100 * MIN_FINE_TUNE_16THS,
             100 * MIN_FINE_TUNE_16THS)

\* ConvertFineTuneToByte of the double nearest to hundredths / 100:
\* (fineTune - 100) / 1.5625 + 64 is ((hundredths - 10000) * 16 + 64 * 2500) / 2500.
\* The exact quotient is a multiple of 1/625, at least 1/1250 away from every
\* half, and the double arithmetic is off by less than 10^-11: std::round
\* gives what the exact quotient gives.  The result fits int8_t for every
\* value ConvertByteToFineTune returns.
ConvertFineTuneToByte(hundredths) ==
    Round((hundredths - 10000) * 16 + MAX_FINE_TUNE_BYTE * 100 * MIN_FINE_TUNE_16THS,
          100 * MIN_FINE_TUNE_16THS)

Int8 == (0 - 128)..127
UInt8 == 0..255

InitUnits ==
    /\ m_presets = <<>>
    /\ m_samples = <<>>
    /\ m_sequences = <<>>
    /\ m_startupPreset = 0
    /\ pc = "units"
    /\ lastOp = Op("none", 0)
    /\ e4bFile = ".e4b"
    /\ fileState = "missing"
    /\ file = <<>>
    /\ outBank = EmptyBank
    /\ readResult = "none"
    /\ startup = 0
    /\ emstChunk = <<>>
    /\ startupRead = 0
    /\ UnitIdle

\* A fine-tune byte is read (E4Voice::Read, E4SampleZone::Read) and the value
\* is written back (E4Voice::Write, E4SampleZone::Write).
FineTuneReadWrite(b) ==
    /\ pc = "units"
    /\ pc' = "fineTune"
    /\ fineTune' = [byte |-> b, m_fineTune |-> ConvertByteToFineTune(b),
                    written |-> ConvertFineTuneToByte(ConvertByteToFineTune(b))]
    /\ UNCHANGED <<bankVars, lastOp, fileVars, readVars, emstVars, unitVars,
                   lfo, tuning, e3Sample, m_cords, entityIndex>>

\* The LFO rate curve.  A rate is held in units of 10^-6; the constants
\* a1 = 1.64054, b1 = 1.01973 and c1 = -1.57702 of GetLFORateFromByte and
\* GetByteFromLFORate are whole numbers of them.
LFOScale == 1000000
LFO_a1 == 1640540
LFO_b1 == 1019730
LFO_minus_c1 == 1577020

\* The product of two non-negative values in units of 10^-6, rounded to the
\* nearest unit; the operands are split in thousands to stay within the
\* integers.
Mul(x, y) ==
    LET xh == x \div 1000
        xl == x % 1000
        yh == y \div 1000
        yl == y % 1000
        cross == xh * yl + xl * yh
    IN  xh * yh + cross \div 1000 + Round((cross % 1000) * 1000 + xl * yl, LFOScale)

\* std::pow(b1, b), b a byte, by repeated squaring.
RECURSIVE Pow_b1(_)
Pow_b1(b) ==
    IF b = 0 THEN LFOScale
    ELSE LET half == Pow_b1(b \div 2)
             square == Mul(half, half)
         IN  IF b % 2 = 0 THEN square ELSE Mul(square, LFO_b1)

\* GetLFORateFromByte(b) = a1 * pow(b1, b) + c1, for b up to 127.  The value
\* is within 10^-3 of the double the code computes, and the limits of the
\* clamp in E4LFO::Write are further than that from every rate a byte gives.
GetLFORateFromByte(b) == Mul(LFO_a1, Pow_b1(b)) - LFO_minus_c1

\* The largest k in lo..hi with a1^2 * b1^k <= square, where lo is such a k.
RECURSIVE LogSteps(_, _, _)
LogSteps(square, lo, hi) ==
    IF lo = hi THEN lo
    ELSE LET mid == (lo + hi + 1) \div 2
         IN  IF Mul(Mul(LFO_a1, LFO_a1), Pow_b1(mid)) <= square
             THEN LogSteps(square, mid, hi)
             ELSE LogSteps(square, lo, mid - 1)

\* GetByteFromLFORate(rate) = round(log((rate - c1) / a1) / log(b1)) for a rate
\* with 1 <= (rate - c1) / a1 < b1^127.5.  round gives n exactly when
\* b1^(2n-1) <= ((rate - c1) / a1)^2 < b1^(2n+1), so with k the largest power
\* of b1 with a1^2 * b1^k <= (rate - c1)^2 it gives (k + 1) \div 2.  The
\* products are within 10^-4 of their value in proportion, the rates E4LFO
\* passes are further than that from every power b1^(2n+1).
GetByteFromLFORate(rate) ==
    (LogSteps(Mul(rate + LFO_minus_c1, rate + LFO_minus_c1), 0, 254) + 1) \div 2

clamp_NoUpperLimit(v, lo, hi) == IF v < lo THEN lo ELSE v

\* std::clamp
clamp(v, lo, hi) == IF v < lo THEN lo ELSE IF hi < v THEN hi ELSE v

\* E4LFO::Read and E4LFO::Write, the rate byte only.
E4LFO_ReadRate(rate) == GetLFORateFromByte(rate)

E4LFO_WriteRate(m_rate) == GetByteFromLFORate(clamp(m_rate, 80000, 18010000))

\* The rate bytes the format uses.
LFORateBytes == 0..127

LFOReadWrite(b) ==
    /\ pc = "units"
    /\ pc' = "lfo"
    /\ lfo' = [byte |-> b, m_rate |-> E4LFO_ReadRate(b),
               written |-> E4LFO_WriteRate(E4LFO_ReadRate(b))]
    /\ UNCHANGED <<bankVars, lastOp, fileVars, readVars, emstVars, unitVars,
                   fineTune, tuning, e3Sample, m_cords, entityIndex>>

\* The limits the numeric setters clamp to.
MIN_TRANSPOSE_BYTE == -36
MAX_TRANSPOSE_BYTE == 36
MIN_COARSE_TUNE_BYTE == -72
MAX_COARSE_TUNE_BYTE == 24
MIN_VOLUME_BYTE == -96
MAX_VOLUME_BYTE == 10
MIN_PAN_BYTE == -64
MAX_PAN_BYTE == 63
MIN_LFO_LAG_BYTE == 0
MAX_LFO_LAG_BYTE == 10
MIN_FILTER_FREQUENCY == 57
MAX_FILTER_FREQUENCY == 20000

\* The numeric setters of E4Voice, E3Sample and E4EMSt: the value the member
\* holds after the call.
NumericSetter(setter, v) ==
    CASE setter = "SetGroup" -> clamp(v, 0, 31)
      [] setter = "SetKeyDelay" -> clamp(v, 0, 10000)
      [] setter = "SetTranspose" -> clamp(v, MIN_TRANSPOSE_BYTE, MAX_TRANSPOSE_BYTE)
      [] setter = "SetCoarseTune" -> clamp(v, MIN_COARSE_TUNE_BYTE, MAX_COARSE_TUNE_BYTE)
      [] setter = "SetVolume" -> clamp(v, MIN_VOLUME_BYTE, MAX_VOLUME_BYTE)
      [] setter = "SetPan" -> clamp(v, MIN_PAN_BYTE, MAX_PAN_BYTE)
      [] setter = "SetFilterFrequency" -> clamp(v, MIN_FILTER_FREQUENCY, MAX_FILTER_FREQUENCY)
      [] setter = "SetLFOLag1" -> clamp(v, MIN_LFO_LAG_BYTE, MAX_LFO_LAG_BYTE)
      [] setter = "SetLFOLag2" -> clamp(v, MIN_LFO_LAG_BYTE, MAX_LFO_LAG_BYTE)
      [] setter = "SetNumChannels" -> clamp(v, 1, 2)
      [] setter = "SetSampleRate" -> clamp(v, 7000, 192000)
      [] setter = "SetTempo" -> clamp(v, 20, 240)

\* The values a setter's parameter can hold: every uint8_t and int8_t, and of
\* uint16_t and uint32_t the ends of the type and the values around the
\* limits (the largest uint32_t taken is 2^31 - 1).
SetterParameter(setter) ==
    CASE setter \in {"SetGroup", "SetLFOLag1", "SetLFOLag2", "SetTempo"} -> UInt8
      [] setter \in {"SetTranspose", "SetCoarseTune", "SetVolume", "SetPan"} -> Int8
      [] setter \in {"SetKeyDelay", "SetFilterFrequency"} ->
            {0, 1, 56, 57, 58, 9999, 10000, 10001, 19999, 20000, 20001, UINT16_MAX}
      [] setter \in {"SetNumChannels", "SetSampleRate"} ->
            {0, 1, 2, 3, 6999, 7000, 7001, 191999, 192000, 192001, 2147483647}

NumericSetters ==
    {"SetGroup", "SetKeyDelay", "SetTranspose", "SetCoarseTune", "SetVolume", "SetPan",
     "SetFilterFrequency", "SetLFOLag1", "SetLFOLag2", "SetNumChannels",
     "SetSampleRate", "SetTempo"}

CallSetter(setter, v) ==
    /\ pc = "units"
    /\ pc' = "setter"
    /\ tuning' = [setter |-> setter, value |-> v, stored |-> NumericSetter(setter, v)]
    /\ UNCHANGED <<bankVars, lastOp, fileVars, readVars, emstVars, unitVars,
                   fineTune, lfo, e3Sample, m_cords, entityIndex>>

\* SetLoopStart's and SetLoopEnd's clamp of a uint32_t to [0, limit], where
\* limit is numSamples - 1u or numSamples: for numSamples = 0 the subtraction
\* wraps to the largest uint32_t, which no value exceeds.
ClampLoop(v, limit) == IF limit < 0 THEN v ELSE clamp(v, 0, limit)

\* E3SampleParams(numSamples, numChannels, loopStart, loopEnd): the members in
\* declaration order.  m_sampleStartL keeps its default 92 and is initialised
\* before m_sampleStartR reads it; SetLoopStart and SetLoopEnd run in the body.
E3SampleParams(numSamples, numChannels, loopStart, loopEnd) ==
    LET m_sampleStartL == 92
        m_sampleStartR == IF numChannels = 1 THEN m_sampleStartL ELSE numSamples + 92
        m_sampleEndL == IF numChannels = 1 THEN numSamples * 2 + 92 - 2
                        ELSE numSamples + 92 - 2
        m_sampleEndR == IF numChannels = 1 THEN m_sampleEndL ELSE numSamples * 2 + 92 - 2
        start == ClampLoop(loopStart, numSamples - 1)
        end == ClampLoop(loopEnd, numSamples)
        m_loopStartL == start * 2 + m_sampleStartL
        m_loopEndL == end * 2 + m_sampleStartL - 2
    IN  [m_sampleStartL |-> m_sampleStartL, m_sampleStartR |-> m_sampleStartR,
         m_sampleEndL |-> m_sampleEndL, m_sampleEndR |-> m_sampleEndR,
         m_loopStartL |-> m_loopStartL,
         m_loopStartR |-> IF numChannels = 1 THEN m_loopStartL
                          ELSE start * 2 + m_sampleStartR,
         m_loopEndL |-> m_loopEndL,
         m_loopEndR |-> IF numChannels = 1 THEN m_loopEndL
                        ELSE end * 2 + m_sampleStartR - 2]

\* E3Sample's constructor: m_numChannels is clamped to [1, 2], m_params is
\* built from the numChannels the caller passed.
E3Sample_Construct(numSamples, numChannels, loopStart, loopEnd) ==
    [numChannels |-> numChannels,
     m_numChannels |-> clamp(numChannels, 1, 2),
     m_params |-> E3SampleParams(numSamples, numChannels, loopStart, loopEnd)]

\* The channel counts and loop bounds handed to the constructor.
ChannelInputs == 0..3
LoopInputs == 0..(MaxWords + 1)

ConstructSample(numSamples, numChannels, loopStart, loopEnd) ==
    /\ pc = "units"
    /\ pc' = "sample"
    /\ e3Sample' = E3Sample_Construct(numSamples, numChannels, loopStart, loopEnd)
    /\ UNCHANGED <<bankVars, lastOp, fileVars, readVars, emstVars, unitVars,
                   fineTune, lfo, tuning, m_cords, entityIndex>>

\* The cords handed to ReplaceOrAddCord: sources SRC_OFF and
\* VEL_POLARITY_LESS, destinations DST_OFF, PITCH and AMP_VOLUME, two amounts.
CordInputs ==
    {E4Cord(src, dst, amt) : src \in {SRC_OFF, 12}, dst \in {DST_OFF, 48, 64},
                             amt \in {0, 50}}

CallReplaceOrAddCord(cord) ==
    /\ pc \in {"units", "cords"}
    /\ pc' = "cords"
    /\ m_cords' = ReplaceOrAddCord(m_cords, cord)
    /\ lastOp' = [op |-> "ReplaceOrAddCord", index |-> 0, size |-> 0, cord |-> cord]
    /\ UNCHANGED <<bankVars, fileVars, readVars, emstVars, unitVars,
                   fineTune, lfo, tuning, e3Sample, entityIndex>>

\* E4Preset::SetIndex, E3Sample::SetIndex and E4Sequence::SetIndex; maxCount is
\* EOS_E4_MAX_PRESETS, EOS_E4_MAX_SAMPLES or EOS_E4_MAX_SEQUENCES.
SetIndex(index, maxCount) ==
    IF index = UINT16_MAX THEN index ELSE clamp(index, 0, maxCount)

EntityCapacity(entity) ==
    CASE entity = "E4Preset" -> EOS_E4_MAX_PRESETS
      [] entity = "E3Sample" -> EOS_E4_MAX_SAMPLES
      [] entity = "E4Sequence" -> EOS_E4_MAX_SEQUENCES

\* The uint16_t values handed to SetIndex: those up to the capacity, two
\* beyond, the largest that is not the sentinel, the sentinel.
SetIndexInputs == (0..(EOS_E4_MAX_PRESETS + 2)) \cup {UINT16_MAX - 1, UINT16_MAX}

\* SetIndex on an entity, which is then handed to the Add of an empty bank:
\* vector is the bank's collection after the Add.
CallSetIndex(entity, index) ==
    /\ pc = "units"
    /\ pc' = "setIndex"
    /\ entityIndex' =
          [entity |-> entity, index |-> index,
           m_index |-> SetIndex(index, EntityCapacity(entity)),
           vector |-> AddEntity(<<>>, [m_index |-> SetIndex(index, EntityCapacity(entity)),
                                       m_name |-> NameTestPreset],
                                EntityCapacity(entity))]
    /\ UNCHANGED <<bankVars, lastOp, fileVars, readVars, emstVars, unitVars,
                   fineTune, lfo, tuning, e3Sample, m_cords>>

UnitsNext ==
    \/ \E b \in Int8 : FineTuneReadWrite(b)
    \/ \E entity \in {"E4Preset", "E3Sample", "E4Sequence"}, index \in SetIndexInputs :
          CallSetIndex(entity, index)
    \/ \E cord \in CordInputs : CallReplaceOrAddCord(cord)
    \/ \E numSamples \in 0..MaxWords, numChannels \in ChannelInputs,
          loopStart \in LoopInputs, loopEnd \in LoopInputs :
            ConstructSample(numSamples, numChannels, loopStart, loopEnd)
    \/ \E setter \in NumericSetters : \E v \in SetterParameter(setter) : CallSetter(setter, v)
    \/ \E b \in LFORateBytes : LFOReadWrite(b)

SpecUnits == InitUnits /\ [][UnitsNext]_vars

----------------------------------------------------------------------------
(* Reading a file's bytes as the format lays them out (positions from 0).  *)

TagAt(data, pos) == SubSeq(data, pos + 1, pos + 4)

BE32At(data, pos) ==
    16777216 * data[pos + 1] + 65536 * data[pos + 2] + 256 * data[pos + 3] + data[pos + 4]

BE16At(data, pos) == 256 * data[pos + 1] + data[pos + 2]

\* The number of table entries: the length field of TOC1 over 32.
TocCount(data) == BE32At(data, 16) \div 32

TocEntryPos(k) == 20 + 32 * (k - 1)
TocEntryTag(data, k) == TagAt(data, TocEntryPos(k))
TocEntryOffset(data, k) == BE32At(data, TocEntryPos(k) + 8)
TocEntryIndex(data, k) == BE16At(data, TocEntryPos(k) + 12)

\* Where the header of the k-th sub-block after TOC1 starts: the first one
\* right after the table, each next one after the payload of the one before.
RECURSIVE SubBlockPos(_, _)
SubBlockPos(data, k) ==
    IF k = 1 THEN 20 + 32 * TocCount(data)
    ELSE LET prev == SubBlockPos(data, k - 1)
         IN  prev + 8 + BE32At(data, prev + 4)

IndexUnique(vector) ==
    \A a, b \in 1..Len(vector) : a # b => vector[a].m_index # vector[b].m_index

\* The (index, name) pairs of a collection, in order.
IndexNames(vector) == [k \in 1..Len(vector) |-> <<vector[k].m_index, vector[k].m_name>>]

\* The collection without the entities carrying index.
WithoutIndex(vector, index) == SelectSeq(vector, LAMBDA e : e.m_index # index)

\* A file with an EOS extension is at the path and opens.
FilePresent == fileState = "present" /\ IsEOSFileFormat(e4bFile)

----------------------------------------------------------------------------
(* The claims.                                                             *)

\* C1: in the file WriteE4B produces for a bank of n >= 1 presets and samples,
\* the offset field of every table entry k in 1..n is the position of the
\* header of the k-th sub-block.
C1_TocOffsetsAreSubBlockPositions ==
    (pc = "written" /\ FilePresent /\ Len(m_presets) + Len(m_samples) >= 1)
    => \A k \in 1..TocCount(file) : TocEntryOffset(file, k) = SubBlockPos(file, k)

\* C2: for a bank of at least one preset or sample, with unique indices and
\* within capacity, ReadE4B on the file WriteE4B wrote returns READ_SUCCESS and
\* gives the same preset indices and names and the same sample indices and
\* names, in order.
C2_BankRoundTrip ==
    ( /\ pc = "read" /\ FilePresent
      /\ Len(m_presets) + Len(m_samples) >= 1
      /\ IndexUnique(m_presets) /\ IndexUnique(m_samples)
      /\ Len(m_presets) <= EOS_E4_MAX_PRESETS /\ Len(m_samples) <= EOS_E4_MAX_SAMPLES )
    => /\ readResult = READ_SUCCESS
       /\ IndexNames(outBank.m_presets) = IndexNames(m_presets)
       /\ IndexNames(outBank.m_samples) = IndexNames(m_samples)

\* C3: the current preset E4EMSt::Read obtains from the bytes of E4EMSt::Write
\* is the one that was written, for every value.
C3_CurrentPresetRoundTrip ==
    pc = "emstRead" => startupRead = startup

\* C4: in every reachable state of the bank no two presets carry the same
\* index, nor two samples, nor two sequences.
C4_IndexUnique ==
    IndexUnique(m_presets) /\ IndexUnique(m_samples) /\ IndexUnique(m_sequences)

\* C5: in every reachable state of the bank each collection holds at most its
\* maximum number of entities.
C5_AtMostMax ==
    /\ Len(m_presets) <= EOS_E4_MAX_PRESETS
    /\ Len(m_samples) <= EOS_E4_MAX_SAMPLES
    /\ Len(m_sequences) <= EOS_E4_MAX_SEQUENCES

\* C6: a Remove call with an index some stored entity carries leaves the
\* collection without that entity and with every other one, in order.
C6_RemoveExactlyThat ==
    [][ /\ (lastOp'.op = "RemovePreset" /\ HasIndex(m_presets, lastOp'.index))
           => m_presets' = WithoutIndex(m_presets, lastOp'.index)
        /\ (lastOp'.op = "RemoveSample" /\ HasIndex(m_samples, lastOp'.index))
           => m_samples' = WithoutIndex(m_samples, lastOp'.index)
        /\ (lastOp'.op = "RemoveSequence" /\ HasIndex(m_sequences, lastOp'.index))
           => m_sequences' = WithoutIndex(m_sequences, lastOp'.index) ]_vars

\* C7: in every reachable state of the bank the startup preset is 0xFFFF or the
\* index of a stored preset.
C7_StartupPresetStored ==
    m_startupPreset = UINT16_MAX \/ HasIndex(m_presets, m_startupPreset)

\* C8: on a file that exists and opens, ReadE4B returns FILE_INVALID when the
\* outer tag is not FORM, the format identifier not E4B0, the table tag not
\* TOC1 or the table empty; it returns FILE_NOT_EXIST only when the file is
\* missing or does not open.
C8_MismatchIsInvalid ==
    (pc = "readProvided" /\ IsEOSFileFormat(e4bFile))
    => /\ ( /\ fileState = "present"
            /\ \/ TagAt(file, 0) # TagFORM
               \/ TagAt(file, 8) # TagE4B0
               \/ TagAt(file, 12) # TagTOC1
               \/ TocCount(file) = 0 )
          => readResult = FILE_INVALID
       /\ readResult = FILE_NOT_EXIST => fileState # "present"

KnownTags == {TagE4P1, TagE3S1, TagE4s1, TagE4Ma, TagEMS0}
DecodedTags == {TagE4P1, TagE3S1, TagE4s1}

\* The header tags are right, the table is not empty, and every table entry
\* points at the header of its sub-block, which carries the entry's tag.
WellFormedFile(data) ==
    /\ TagAt(data, 0) = TagFORM /\ TagAt(data, 8) = TagE4B0 /\ TagAt(data, 12) = TagTOC1
    /\ TocCount(data) > 0
    /\ \A k \in 1..TocCount(data) :
          /\ TocEntryOffset(data, k) = SubBlockPos(data, k)
          /\ TagAt(data, SubBlockPos(data, k)) = TocEntryTag(data, k)

\* C9: on a well-formed file, ReadE4B returns FILE_INVALID when some table
\* entry, at whatever position, carries a tag other than E4P1, E3S1, E4s1, E4Ma
\* and EMS0; when none does it does not return FILE_INVALID, and the entries
\* tagged E4Ma or EMS0 add nothing to the bank.
C9_UnknownTagIsInvalid ==
    (pc = "readProvided" /\ FilePresent /\ WellFormedFile(file))
    => LET entries == 1..TocCount(file)
       IN  /\ (\E k \in entries : TocEntryTag(file, k) \notin KnownTags)
              => readResult = FILE_INVALID
           /\ (\A k \in entries : TocEntryTag(file, k) \in KnownTags)
              => /\ readResult = READ_SUCCESS
                 /\ Len(outBank.m_presets) + Len(outBank.m_samples) + Len(outBank.m_sequences)
                      = Cardinality({k \in entries : TocEntryTag(file, k) \in DecodedTags})

\* A well-formed file whose first entry is skipped (E4Ma) and whose last entry
\* carries the unknown tag has been read and rejected.
C9_Witness ==
    /\ pc = "readProvided" /\ FilePresent /\ WellFormedFile(file)
    /\ TocCount(file) = MaxTocEntries
    /\ TocEntryTag(file, 1) = TagE4Ma
    /\ TocEntryTag(file, MaxTocEntries) = TagXXXX
    /\ readResult = FILE_INVALID

\* C10: the file WriteE4B produces has one table entry per preset, sample and
\* sequence of the bank, those of the sequences tagged E4s1.
C10_SequencesWritten ==
    (pc = "written" /\ FilePresent)
    => /\ TocCount(file) = Len(m_presets) + Len(m_samples) + Len(m_sequences)
       /\ Cardinality({k \in 1..TocCount(file) : TocEntryTag(file, k) = TagE4s1})
            = Len(m_sequences)

\* C11: an Add with an explicit index that a stored entity of the same
\* collection already carries leaves that collection as it was.
C11_DuplicateExplicitRejected ==
    [][ /\ (lastOp'.op = "AddPreset" /\ lastOp'.index # UINT16_MAX
                /\ HasIndex(m_presets, lastOp'.index))
           => m_presets' = m_presets
        /\ (lastOp'.op = "AddSample" /\ lastOp'.index # UINT16_MAX
                /\ HasIndex(m_samples, lastOp'.index))
           => m_samples' = m_samples
        /\ (lastOp'.op = "AddSequence" /\ lastOp'.index # UINT16_MAX
                /\ HasIndex(m_sequences, lastOp'.index))
           => m_sequences' = m_sequences ]_vars

\* An AddPreset of index 0 was made on a bank whose only preset had index 0,
\* and that preset is still the only one.
C11_Witness ==
    /\ lastOp = OpAdd("AddPreset", 0, 1)
    /\ Len(m_presets) = 1
    /\ m_presets[1].m_index = 0

\* C12: an Add with the sentinel index 0xFFFF on a collection of s entities,
\* s below the maximum, appends the entity with index s and keeps the others.
C12_SentinelGetsSize ==
    [][ /\ (lastOp'.op = "AddPreset" /\ lastOp'.index = UINT16_MAX
                /\ Len(m_presets) < EOS_E4_MAX_PRESETS)
           => /\ Len(m_presets') = Len(m_presets) + 1
              /\ SubSeq(m_presets', 1, Len(m_presets)) = m_presets
              /\ m_presets'[Len(m_presets')].m_index = Len(m_presets)
        /\ (lastOp'.op = "AddSample" /\ lastOp'.index = UINT16_MAX
                /\ Len(m_samples) < EOS_E4_MAX_SAMPLES)
           => /\ Len(m_samples') = Len(m_samples) + 1
              /\ SubSeq(m_samples', 1, Len(m_samples)) = m_samples
              /\ m_samples'[Len(m_samples')].m_index = Len(m_samples)
        /\ (lastOp'.op = "AddSequence" /\ lastOp'.index = UINT16_MAX
                /\ Len(m_sequences) < EOS_E4_MAX_SEQUENCES)
           => /\ Len(m_sequences') = Len(m_sequences) + 1
              /\ SubSeq(m_sequences', 1, Len(m_sequences)) = m_sequences
              /\ m_sequences'[Len(m_sequences')].m_index = Len(m_sequences) ]_vars

\* A sentinel AddPreset was made on a bank of one preset, of index 0, and the
\* bank now holds two presets, of indices 0 and 1 in this order.
C12_Witness ==
    /\ lastOp = OpAdd("AddPreset", UINT16_MAX, 1)
    /\ Len(m_presets) = 2
    /\ m_presets[1].m_index = 0
    /\ m_presets[2].m_index = 1

\* C13: a Remove with an index that no stored entity of the collection carries
\* leaves the three collections and the startup preset as they were.
C13_RemoveAbsentIsNoOp ==
    [][ /\ (lastOp'.op = "RemovePreset" /\ ~HasIndex(m_presets, lastOp'.index))
           => UNCHANGED <<bankVars, pc, objVars>>
        /\ (lastOp'.op = "RemoveSample" /\ ~HasIndex(m_samples, lastOp'.index))
           => UNCHANGED <<bankVars, pc, objVars>>
        /\ (lastOp'.op = "RemoveSequence" /\ ~HasIndex(m_sequences, lastOp'.index))
           => UNCHANGED <<bankVars, pc>> ]_vars

\* A RemovePreset of index 0xFFFF, which no stored entity ever carries, on a
\* bank that holds as many presets as the maximum.
C13_Witness ==
    /\ lastOp = Op("RemovePreset", UINT16_MAX)
    /\ Len(m_presets) = EOS_E4_MAX_PRESETS
    /\ m_samples # <<>>

\* C14: SetStartupPreset(i) on a bank with a preset stores i when i is 0xFFFF
\* or the index of a stored preset, and the first preset's index otherwise; on
\* a bank without presets the startup preset stays.
C14_SetStartupPreset ==
    [][ lastOp'.op = "SetStartupPreset"
        => LET i == lastOp'.index
           IN  /\ m_presets = <<>> => m_startupPreset' = m_startupPreset
               /\ (m_presets # <<>> /\ (i = UINT16_MAX \/ HasIndex(m_presets, i)))
                  => m_startupPreset' = i
               /\ (m_presets # <<>> /\ i # UINT16_MAX /\ ~HasIndex(m_presets, i))
                  => m_startupPreset' = m_presets[1].m_index ]_vars

\* The call asked for index 0, which no preset carries, and the first preset's
\* index, 1, was stored instead.
C14_Witness ==
    /\ lastOp = Op("SetStartupPreset", 0)
    /\ m_presets # <<>>
    /\ ~HasIndex(m_presets, 0)
    /\ m_presets[1].m_index = 1
    /\ m_startupPreset = 1

\* A chunk of the tree c reaches the stream when its name and the names of
\* the chunks above it are four bytes long.
RECURSIVE ChunkEmitted(_, _)
ChunkEmitted(c, path) ==
    /\ Len(c.m_chunkName) = FORM_CHUNK_MAX_NAME_LEN
    /\ path # <<>> => ChunkEmitted(c.m_subChunks[Head(path)], Tail(path))

\* Where the chunk at path starts in what Write emits for c.
RECURSIVE ChunkOffset(_, _)
ChunkOffset(c, path) ==
    IF path = <<>> THEN 0
    ELSE 8 + Len(c.m_writtenData)
           + Len(WriteSubChunks(SubSeq(c.m_subChunks, 1, Head(path) - 1), 1))
           + ChunkOffset(c.m_subChunks[Head(path)], Tail(path))

\* C15: every chunk that Write emits and whose length is not overridden
\* carries, as its length field, the number of bytes emitted after its 8-byte
\* header: its payload and what is emitted for the chunks below it.
C15_LengthIsEmittedSize ==
    pc = "chunkWritten"
    => \A path \in ChunkPaths(rootChunk) :
          (ChunkEmitted(rootChunk, path) /\ ChunkAt(rootChunk, path).m_readChunkSize = 0)
          => BE32At(stream, ChunkOffset(rootChunk, path) + 4)
               = Len(FORMChunk_Write(ChunkAt(rootChunk, path))) - 8

\* The bytes of the chunks of c that reach the stream: header and payload of
\* each chunk named with four bytes, under chunks named with four bytes.
RECURSIVE EmittedSize(_)
RECURSIVE SumEmittedSize(_, _)
SumEmittedSize(subChunks, i) ==
    IF i > Len(subChunks) THEN 0
    ELSE EmittedSize(subChunks[i]) + SumEmittedSize(subChunks, i + 1)

EmittedSize(c) ==
    IF Len(c.m_chunkName) # FORM_CHUNK_MAX_NAME_LEN THEN 0
    ELSE 8 + Len(c.m_writtenData) + SumEmittedSize(c.m_subChunks, 1)

\* C16: Write on a chunk whose name is not four bytes long puts nothing on the
\* stream, for the root and for every chunk below it: no header, no payload,
\* nothing of the chunks under it.
C16_BadNameWritesNothing ==
    pc = "chunkWritten"
    => /\ Len(rootChunk.m_chunkName) # FORM_CHUNK_MAX_NAME_LEN => stream = <<>>
       /\ Len(stream) = EmittedSize(rootChunk)

\* Write was called on a chunk named "AB" that holds data and a sub-chunk named
\* "FORM", and the stream is empty.
C16_Witness ==
    /\ pc = "chunkWritten"
    /\ rootChunk.m_chunkName = TagAB
    /\ rootChunk.m_writtenData # <<>>
    /\ Len(rootChunk.m_subChunks) = 1
    /\ rootChunk.m_subChunks[1].m_chunkName = TagFORM
    /\ stream = <<>>

\* C17: for a voice of z zones, 0 <= z <= 256, Write appends 284 + 22 z bytes,
\* the voice-data-size field holds 284 + 22 z, that value is 20 modulo 22, and
\* a Read that accepts the record leaves the stream 284 + 22 z bytes further.
C17_VoiceSize ==
    LET z == e4Voice.m_zones
        data == rootChunk.m_writtenData
    IN  /\ pc \in {"voiceWritten", "voiceRead"}
           => /\ z \in 0..256
              /\ Len(data) = 284 + 22 * z
              /\ BE16At(data, 0) = 284 + 22 * z
              /\ BE16At(data, 0) % 22 = 20
        /\ (pc = "voiceRead" /\ voiceRead.voice.m_zones > 0)
           => /\ voiceRead.s.pos = 284 + 22 * z
              /\ Good(voiceRead.s)

\* A voice of 255 zones was written and read, and the read took its zones.
C17_Witness ==
    /\ pc = "voiceRead"
    /\ e4Voice.m_zones = 255
    /\ Len(rootChunk.m_writtenData) = 5894
    /\ voiceRead.voice.m_zones = 255
    /\ voiceRead.s.pos = 5894

\* C18: for a voice of z zones, 1 <= z <= 256, the zone-count field that Write
\* emits is z, and Read on the record gives a voice of z zones.
C18_ZoneCountField ==
    (pc = "voiceRead" /\ e4Voice.m_zones >= 1)
    => /\ rootChunk.m_writtenData[3] = e4Voice.m_zones
       /\ voiceRead.voice.m_zones = e4Voice.m_zones

\* The payload of the k-th sub-block of a file, and in a preset's payload the
\* size marker, the number of voices, and the two leading fields of the first
\* voice.
PayloadPos(data, k) == TocEntryOffset(data, k) + 8
PresetMarker(data, k) == BE16At(data, PayloadPos(data, k) + 2 + EOS_E4_MAX_NAME_LEN)
PresetNumVoices(data, k) == BE16At(data, PayloadPos(data, k) + 2 + EOS_E4_MAX_NAME_LEN + 2)
FirstVoiceSize(data, k) == BE16At(data, PayloadPos(data, k) + 2 + PRESET_DATA_SIZE)
FirstVoiceZoneCount(data, k) == data[PayloadPos(data, k) + 2 + PRESET_DATA_SIZE + 3]

\* The k-th entry is a preset with the marker 82 whose first voice fails the
\* check of E4Voice::Read.
FirstVoiceFails(data, k) ==
    /\ TocEntryTag(data, k) = TagE4P1
    /\ PresetMarker(data, k) = PRESET_DATA_SIZE
    /\ PresetNumVoices(data, k) >= 1
    /\ (FirstVoiceSize(data, k) % 22 # 20 \/ FirstVoiceZoneCount(data, k) = 0)

\* C19: on a well-formed file of known tags in which a voice record of a preset
\* has a voice-data-size that is not 20 modulo 22, or a zone count of 0,
\* ReadE4B returns FILE_INVALID.
C19_VoiceFailureIsInvalid ==
    ( /\ pc = "readProvided" /\ FilePresent /\ WellFormedFile(file)
      /\ \A k \in 1..TocCount(file) : TocEntryTag(file, k) \in KnownTags
      /\ \E k \in 1..TocCount(file) : FirstVoiceFails(file, k) )
    => readResult = FILE_INVALID

\* C20: after ReadE4B on a well-formed file, a preset whose size marker is not
\* 82 is not in the bank, and a preset whose first voice fails the check of
\* E4Voice::Read has no voice in its list.
C20_FailedRecordNotAdded ==
    (pc = "readProvided" /\ FilePresent /\ WellFormedFile(file))
    => \A k \in 1..TocCount(file) :
          /\ (TocEntryTag(file, k) = TagE4P1 /\ PresetMarker(file, k) # PRESET_DATA_SIZE)
             => ~HasIndex(outBank.m_presets, TocEntryIndex(file, k))
          /\ FirstVoiceFails(file, k)
             => \A j \in 1..Len(outBank.m_presets) :
                   outBank.m_presets[j].m_index = TocEntryIndex(file, k)
                   => outBank.m_presets[j].m_voices = <<>>

\* C21: in the file WriteE4B produced, for every sample of the bank, the
\* length in the sample's table entry is below 2^31 and, plus 2, is the length
\* of the sample's sub-block payload; and that length less the 94 bytes of the
\* fixed part, in 16-bit words, is the number of PCM words of the sample.
C21_SampleTocLength ==
    (pc = "written" /\ FilePresent)
    => \A j \in 1..Len(m_samples) :
          LET k == Len(m_presets) + j
              lengthPos == TocEntryPos(k) + 4
          IN  /\ file[lengthPos + 1] < 128
              /\ BE32At(file, lengthPos) + 2 = BE32At(file, SubBlockPos(file, k) + 4)
              /\ (BE32At(file, lengthPos) + 2 - SAMPLE_INFO_WITHOUT_SIZE) \div 2
                   = Len(m_samples[j].m_sampleData)

\* A name of exactly 16 characters, none of them NUL.
EOSName(name) ==
    /\ Len(name) = EOS_E4_MAX_NAME_LEN
    /\ \A i \in 1..Len(name) : name[i] # 0

\* C22: every preset, sample and sequence stored in the bank has a name of
\* exactly 16 characters without a NUL, whatever name it was built with.
C22_StoredNames ==
    /\ \A k \in 1..Len(m_presets) : EOSName(m_presets[k].m_name)
    /\ \A k \in 1..Len(m_samples) : EOSName(m_samples[k].m_name)
    /\ \A k \in 1..Len(m_sequences) : EOSName(m_sequences[k].m_name)

\* C23: in the file WriteE4B produced, the table entries take 32 bytes each:
\* TOC1's length is 32 times the number of presets and samples written, which
\* is the entry count ReadE4B computes, and every entry and the first
\* sub-block start 32 bytes after the entry before.
C23_TocEntrySize ==
    (pc = "written" /\ FilePresent)
    => LET n == Len(m_presets) + Len(m_samples)
       IN  /\ BE32At(file, 16) = EOS_E4_TOC_SIZE * n
           /\ TocCount(file) = n
           /\ \A k \in 1..n : TocEntryTag(file, k) \in {TagE4P1, TagE3S1}
           /\ TagAt(file, TocEntryPos(n + 1)) \in {TagE4P1, TagE3S1, TagEMSt}

\* C24: a fine-tune byte that is decoded and encoded again comes back as it
\* was, for every signed byte.
C24_FineTuneRoundTrip ==
    pc = "fineTune" => fineTune.written = fineTune.byte

\* Bytes whose decoded value is rounded up to the next hundredth, one of each sign.
C24_Witness ==
    /\ pc = "fineTune"
    /\ fineTune.byte = 0 - 127
    /\ fineTune.m_fineTune = 0 - 19843
    /\ fineTune.written = 0 - 127

\* C25: a rate byte that E4LFO::Read decodes and E4LFO::Write encodes again
\* comes back as it was, for every byte from 0 to 127.
C25_LFORateRoundTrip ==
    pc = "lfo" => lfo.written = lfo.byte

\* The ranges the specification documents for the numeric setters.
DocumentedRange ==
    [SetKeyDelay |-> <<0, 10000>>, SetTranspose |-> <<-36, 36>>,
     SetCoarseTune |-> <<-72, 24>>, SetVolume |-> <<-96, 10>>, SetPan |-> <<-64, 63>>,
     SetFilterFrequency |-> <<57, 20000>>, SetLFOLag1 |-> <<0, 10>>,
     SetLFOLag2 |-> <<0, 10>>, SetGroup |-> <<0, 31>>, SetTempo |-> <<20, 240>>,
     SetSampleRate |-> <<7000, 192000>>, SetNumChannels |-> <<1, 2>>]

\* C26: after a numeric setter the member holds the input when the input is
\* in the documented range, the lower limit when it is below, and the upper
\* limit when it is above.
C26_SettersSaturate ==
    pc = "setter"
    => LET lo == DocumentedRange[tuning.setter][1]
           hi == DocumentedRange[tuning.setter][2]
       IN  /\ tuning.value < lo => tuning.stored = lo
           /\ tuning.value > hi => tuning.stored = hi
           /\ tuning.value \in lo..hi => tuning.stored = tuning.value

\* SetTempo(255) stores 240.
C26_Witness ==
    /\ pc = "setter"
    /\ tuning.setter = "SetTempo"
    /\ tuning.value = 255
    /\ tuning.stored = 240

\* C27: a sample built by the constructor that reports one channel has its
\* right-channel offsets equal to the left-channel ones.
C27_MonoMirrorsLeft ==
    (pc = "sample" /\ e3Sample.m_numChannels = 1)
    => /\ e3Sample.m_params.m_sampleStartR = e3Sample.m_params.m_sampleStartL
       /\ e3Sample.m_params.m_sampleEndR = e3Sample.m_params.m_sampleEndL
       /\ e3Sample.m_params.m_loopStartR = e3Sample.m_params.m_loopStartL
       /\ e3Sample.m_params.m_loopEndR = e3Sample.m_params.m_loopEndL

\* No two slots hold the same source and destination, (SRC_OFF, DST_OFF) apart.
CordsUnique ==
    \A i, j \in DOMAIN m_cords :
        (/\ i # j
         /\ m_cords[i].m_src = m_cords[j].m_src
         /\ m_cords[i].m_dst = m_cords[j].m_dst)
        => (m_cords[i].m_src = SRC_OFF /\ m_cords[i].m_dst = DST_OFF)

CordMatches(cord) ==
    \E i \in DOMAIN m_cords :
        m_cords[i].m_src = cord.m_src /\ m_cords[i].m_dst = cord.m_dst

\* A ReplaceOrAddCord call changes at most one slot, and no slot when none
\* holds the cord's pair and none is (SRC_OFF, DST_OFF).
CordCallChangesOneSlot ==
    lastOp'.op = "ReplaceOrAddCord"
    => /\ Cardinality({i \in DOMAIN m_cords : m_cords'[i] # m_cords[i]}) <= 1
       /\ DOMAIN m_cords' = DOMAIN m_cords
       /\ (~CordMatches(lastOp'.cord) /\ ~CordMatches(E4Cord(SRC_OFF, DST_OFF, 0)))
          => m_cords' = m_cords

\* C28: from a default voice, under any sequence of ReplaceOrAddCord calls, no
\* two cord slots hold the same (source, destination) other than
\* (SRC_OFF, DST_OFF); a call changes at most one slot, and none when no slot
\* matches and no (SRC_OFF, DST_OFF) slot is left.
C28_CordSlots ==
    [][CordsUnique /\ CordsUnique' /\ CordCallChangesOneSlot]_vars

\* Every slot is taken and the last call brought a pair no slot holds.
C28_Witness ==
    /\ pc = "cords"
    /\ lastOp.op = "ReplaceOrAddCord"
    /\ ~CordMatches(E4Cord(SRC_OFF, DST_OFF, 0))
    /\ ~CordMatches(lastOp.cord)

\* C29: when ReadE4B, handed an empty bank, returns FILE_INVALID or
\* FILE_NOT_EXIST, the bank is still empty and its startup preset unset.
C29_FailedReadLeavesBank ==
    (pc \in {"read", "readProvided"} /\ readResult \in {FILE_INVALID, FILE_NOT_EXIST})
    => outBank = EmptyBank

\* C30: the index SetIndex stores for an input other than the sentinel is
\* below the capacity of the collection, and the Add of an empty bank takes
\* the entity; the sentinel 0xFFFF is stored as it is.
C30_StoredIndexIsAccepted ==
    pc = "setIndex"
    => IF entityIndex.index = UINT16_MAX
       THEN entityIndex.m_index = UINT16_MAX
       ELSE /\ entityIndex.m_index <= EntityCapacity(entityIndex.entity) - 1
            /\ Len(entityIndex.vector) = 1

====
